---- MODULE Spec2Model ----
(***************************************************************************)
(* Hybrid analysis and streaming orchestration engine.                     *)
(*                                                                         *)
(*   services/geminiService.ts  retryOperation, analyzeAndOptimizeStream   *)
(*   services/staticAnalyzer.ts analyzeCodeStatic                          *)
(*   services/demoOrchestrator.ts ScenarioEngine                           *)
(*   components/V38ChatModal.tsx the daily usage limit                     *)
(*   App.tsx                    handleAnalyze, handleViewSample            *)
(*                                                                         *)
(* Texts are sequences of one-character strings, so that the regular       *)
(* expressions, indexOf/lastIndexOf, trim and JSON.parse of the source are *)
(* computed character by character.                                        *)
(***************************************************************************)
EXTENDS Integers, Sequences, FiniteSets, TLC

(***************************************************************************)
(* Text primitives (String.prototype of the source language).              *)
(***************************************************************************)
MinOf(S) == CHOOSE x \in S : \A y \in S : x <= y

MaxOf(S) == CHOOSE x \in S : \A y \in S : x >= y

\* s.startsWith(p, i-1): p occurs in s at the 1-based position i
IsPrefixAt(s, p, i) ==
    /\ i >= 1
    /\ i + Len(p) - 1 <= Len(s)
    /\ \A k \in 1..Len(p) : s[i + k - 1] = p[k]

\* s.indexOf(p, from-1) + 1: first 1-based position >= from, 0 when absent
IndexOf(s, p, from) ==
    LET hits == {i \in from..(Len(s) - Len(p) + 1) : IsPrefixAt(s, p, i)}
    IN  IF hits = {} THEN 0 ELSE MinOf(hits)

\* s.lastIndexOf(p) + 1
LastIndexOf(s, p) ==
    LET hits == {i \in 1..(Len(s) - Len(p) + 1) : IsPrefixAt(s, p, i)}
    IN  IF hits = {} THEN 0 ELSE MaxOf(hits)

\* s.includes(p)
Includes(s, p) == IndexOf(s, p, 1) # 0

\* the characters \s matches and trim() removes (those the model's texts use)
WhiteSpace == {" ", "\n", "\t", "\r"}

\* the characters the regular expression dot does not match
LineTerminator == {"\n", "\r"}

\* first position >= i that holds no white space (Len(s)+1 when there is none)
SkipWs(s, i) ==
    LET rest == {j \in i..Len(s) : s[j] \notin WhiteSpace}
    IN  IF rest = {} THEN Len(s) + 1 ELSE MinOf(rest)

\* s.trim()
Trim(s) ==
    LET keep == {j \in 1..Len(s) : s[j] \notin WhiteSpace}
    IN  IF keep = {} THEN <<>> ELSE SubSeq(s, MinOf(keep), MaxOf(keep))

\* s.substring(a-1, b)
Substring(s, a, b) == SubSeq(s, a, b)

Digits == <<"0", "1", "2", "3", "4", "5", "6", "7", "8", "9">>

DigitSet == {Digits[i] : i \in 1..10}

DigitValue(c) == (CHOOSE i \in 1..10 : Digits[i] = c) - 1

RECURSIVE NumberToText(_)
\* String(n) for a natural number n
NumberToText(n) ==
    IF n < 10 THEN <<Digits[n + 1]>>
    ELSE NumberToText(n \div 10) \o <<Digits[(n % 10) + 1]>>

(***************************************************************************)
(* Control markers (geminiService.ts 336-348 and 398-399).                 *)
(***************************************************************************)
\* the literal text both regular expressions open with: \[\[PHASE:
TagOpen == <<"[", "[", "P", "H", "A", "S", "E", ":">>

\* the literal text both regular expressions close with: \]\]
TagClose == <<"]", "]">>

\* Last position of the match of /\[\[PHASE:.*?\]\]/ (dotAll = FALSE) or of
\* /\[\[PHASE:[\s\S]*?\]\]/ (dotAll = TRUE) that starts at position i; 0 when
\* the expression does not match there.  The lazy body stops at the first
\* "]]"; without dotAll it may not cross a line terminator.
TagEnd(s, i, dotAll) ==
    IF ~IsPrefixAt(s, TagOpen, i) THEN 0
    ELSE LET c == IndexOf(s, TagClose, i + Len(TagOpen))
         IN  IF c = 0 THEN 0
             ELSE IF ~dotAll /\ \E k \in (i + Len(TagOpen))..(c - 1) :
                                    s[k] \in LineTerminator
                  THEN 0
                  ELSE c + Len(TagClose) - 1

RECURSIVE ReplaceTagsFrom(_, _, _)
\* s.replace(<expression>/g, '') from position i on: matches are taken left
\* to right, each search resuming after the previous match
ReplaceTagsFrom(s, i, dotAll) ==
    IF i > Len(s) THEN <<>>
    ELSE LET e == TagEnd(s, i, dotAll)
         IN  IF e # 0 THEN ReplaceTagsFrom(s, e + 1, dotAll)
             ELSE <<s[i]>> \o ReplaceTagsFrom(s, i + 1, dotAll)

\* const cleanChunk = text.replace(/\[\[PHASE:.*?\]\]/g, '')
CleanChunk(text) == ReplaceTagsFrom(text, 1, FALSE)

\* let cleanText = finalJsonText.replace(/\[\[PHASE:[\s\S]*?\]\]/g, '')
CleanText(text) == ReplaceTagsFrom(text, 1, TRUE)

\* text.match(/\[\[PHASE:\s*(.*?)\]\]/): the first position where the
\* expression matches, as [found, name] with name = match[1].  \s* takes the
\* white space after the colon (line terminators included), the lazy group
\* runs to the first "]]" and may not cross a line terminator.
PhaseCaptureAt(s, i) ==
    IF ~IsPrefixAt(s, TagOpen, i) THEN [found |-> FALSE, name |-> <<>>]
    ELSE LET j == SkipWs(s, i + Len(TagOpen))
             c == IndexOf(s, TagClose, j)
         IN  IF c = 0 \/ \E k \in j..(c - 1) : s[k] \in LineTerminator
             THEN [found |-> FALSE, name |-> <<>>]
             ELSE [found |-> TRUE, name |-> SubSeq(s, j, c - 1)]

PhaseMatch(text) ==
    LET hits == {i \in 1..Len(text) : PhaseCaptureAt(text, i).found}
    IN  IF hits = {} THEN [found |-> FALSE, name |-> <<>>]
        ELSE PhaseCaptureAt(text, MinOf(hits))

(***************************************************************************)
(* JSON.parse and JSON.stringify, for the values the model's texts can     *)
(* spell: objects, strings without escapes, unsigned integers.  A value is *)
(* [t, n, s, m]: t its type, n the number, s the string's characters, m    *)
(* the object's members in source order, each [k, v].                      *)
(***************************************************************************)
Undefined == [t |-> "undefined", n |-> 0, s |-> <<>>, m |-> <<>>]

JNum(n) == [t |-> "number", n |-> n, s |-> <<>>, m |-> <<>>]

JStr(s) == [t |-> "string", n |-> 0, s |-> s, m |-> <<>>]

JObj(m) == [t |-> "object", n |-> 0, s |-> <<>>, m |-> m]

ParseFail == [ok |-> FALSE, val |-> Undefined, next |-> 0]

ParseOk(v, next) == [ok |-> TRUE, val |-> v, next |-> next]

\* a string token whose opening quote is at position q
ParseString(s, q) ==
    LET c == IndexOf(s, <<"\"">>, q + 1)
    IN  IF c = 0 \/ \E k \in (q + 1)..(c - 1) : s[k] \in {"\n", "\r", "\t", "\\"}
        THEN ParseFail
        ELSE ParseOk(JStr(SubSeq(s, q + 1, c - 1)), c + 1)

RECURSIVE DigitsValue(_, _, _)
DigitsValue(s, a, b) ==
    IF b < a THEN 0 ELSE DigitsValue(s, a, b - 1) * 10 + DigitValue(s[b])

\* a number token starting at position j (a digit): no leading zero
ParseNumber(s, j) ==
    LET stop == {k \in j..Len(s) : s[k] \notin DigitSet}
        e    == IF stop = {} THEN Len(s) ELSE MinOf(stop) - 1
    IN  IF s[j] = "0" /\ e > j THEN ParseFail
        ELSE ParseOk(JNum(DigitsValue(s, j, e)), e + 1)

RECURSIVE ParseValue(_, _)
RECURSIVE ParseMembers(_, _, _)
\* the members of an object from position i (a key is expected there)
ParseMembers(s, i, acc) ==
    LET q == SkipWs(s, i)
    IN  IF q > Len(s) \/ s[q] # "\"" THEN ParseFail
        ELSE LET key == ParseString(s, q)
             IN  IF ~key.ok THEN ParseFail
                 ELSE LET colon == SkipWs(s, key.next)
                      IN  IF colon > Len(s) \/ s[colon] # ":" THEN ParseFail
                          ELSE LET v == ParseValue(s, colon + 1)
                               IN  IF ~v.ok THEN ParseFail
                                   ELSE LET sep  == SkipWs(s, v.next)
                                            acc2 == Append(acc, [k |-> key.val.s, v |-> v.val])
                                        IN  IF sep > Len(s) THEN ParseFail
                                            ELSE IF s[sep] = "}" THEN ParseOk(JObj(acc2), sep + 1)
                                            ELSE IF s[sep] = "," THEN ParseMembers(s, sep + 1, acc2)
                                            ELSE ParseFail

ParseValue(s, i) ==
    LET j == SkipWs(s, i)
    IN  IF j > Len(s) THEN ParseFail
        ELSE IF s[j] = "{"
             THEN LET k == SkipWs(s, j + 1)
                  IN  IF k <= Len(s) /\ s[k] = "}" THEN ParseOk(JObj(<<>>), k + 1)
                      ELSE ParseMembers(s, j + 1, <<>>)
        ELSE IF s[j] = "\"" THEN ParseString(s, j)
        ELSE IF s[j] \in DigitSet THEN ParseNumber(s, j)
        ELSE ParseFail

\* JSON.parse(s): ok = FALSE stands for the SyntaxError it throws
JsonParse(s) ==
    LET r == ParseValue(s, 1)
    IN  IF r.ok /\ SkipWs(s, r.next) > Len(s) THEN r ELSE ParseFail

\* obj.key of a parsed value: the last member of that key, else undefined
Member(v, key) ==
    LET hits == {i \in 1..Len(v.m) : v.m[i].k = key}
    IN  IF v.t # "object" \/ hits = {} THEN Undefined ELSE v.m[MaxOf(hits)].v

\* the truthiness of a value
Truthy(v) ==
    \/ v.t = "object"
    \/ v.t = "number" /\ v.n # 0
    \/ v.t = "string" /\ v.s # <<>>

(***************************************************************************)
(* Error objects.  [cls, status, code, message, isRetryable]: cls is the   *)
(* class (instanceof), status and code are 0 when the property is absent,  *)
(* isRetryable is the GeminiError's public field.                          *)
(***************************************************************************)
\* the indicator texts of lines 31 and 442
T_429 == <<"4", "2", "9">>

T_quota == <<"q", "u", "o", "t", "a">>

T_RESOURCE_EXHAUSTED ==
    <<"R", "E", "S", "O", "U", "R", "C", "E", "_", "E", "X", "H", "A", "U", "S", "T", "E", "D">>

\* the indicator text of line 33
T_fetch == <<"f", "e", "t", "c", "h">>

\* the keys the catch wrapper reads from a nested body
T_error == <<"e", "r", "r", "o", "r">>

T_message == <<"m", "e", "s", "s", "a", "g", "e">>

T_code == <<"c", "o", "d", "e">>

\* the keys JSON.stringify writes for an error object
T_status == <<"s", "t", "a", "t", "u", "s">>

T_name == <<"n", "a", "m", "e">>

T_isRetryable == <<"i", "s", "R", "e", "t", "r", "y", "a", "b", "l", "e">>

T_true == <<"t", "r", "u", "e">>

T_false == <<"f", "a", "l", "s", "e">>

\* this.name = "GeminiError"
T_GeminiError == <<"G", "e", "m", "i", "n", "i", "E", "r", "r", "o", "r">>

\* error.message || "Unknown API Error"
UnknownApiErrorMessage ==
    <<"U", "n", "k", "n", "o", "w", "n", " ", "A", "P", "I", " ", "E", "r", "r", "o", "r">>

\* the messages of the GeminiErrors the source raises
MissingKeyMessage ==
    <<"A", "P", "I", " ", "K", "e", "y", " ", "i", "s", " ", "m", "i", "s", "s", "i", "n", "g",
      ".", " ", "P", "l", "e", "a", "s", "e", " ", "c", "o", "n", "f", "i", "g", "u", "r", "e",
      " ", "y", "o", "u", "r", " ", "s", "e", "t", "t", "i", "n", "g", "s", ".">>

NoOutputMessage ==
    <<"M", "o", "d", "e", "l", " ", "f", "a", "i", "l", "e", "d", " ", "t", "o", " ", "g", "e",
      "n", "e", "r", "a", "t", "e", " ", "a", " ", "J", "S", "O", "N", " ", "r", "e", "s", "p",
      "o", "n", "s", "e", ".">>

MalformedMessage ==
    <<"F", "a", "i", "l", "e", "d", " ", "t", "o", " ", "p", "a", "r", "s", "e", " ", "a", "n",
      "a", "l", "y", "s", "i", "s", " ", "r", "e", "p", "o", "r", "t", ".", " ", "T", "h", "e",
      " ", "m", "o", "d", "e", "l", " ", "o", "u", "t", "p", "u", "t", " ", "w", "a", "s", " ",
      "m", "a", "l", "f", "o", "r", "m", "e", "d", ".">>

QuotaMessage ==
    <<"G", "e", "m", "i", "n", "i", " ", "Q", "u", "o", "t", "a", " ", "E", "x", "c", "e", "e",
      "d", "e", "d", " ", "(", "4", "2", "9", ")", ".", " ", "P", "l", "e", "a", "s", "e", " ",
      "w", "a", "i", "t", " ", "a", " ", "m", "o", "m", "e", "n", "t", ",", " ", "c", "h", "e",
      "c", "k", " ", "y", "o", "u", "r", " ", "p", "l", "a", "n", ",", " ", "o", "r", " ", "u",
      "s", "e", " ", "a", " ", "p", "a", "i", "d", " ", "A", "P", "I", " ", "K", "e", "y", ".">>

\* the TypeError of errorMsg.includes when the unwrapped message is no string
IncludesTypeErrorMessage ==
    <<"e", "r", "r", "o", "r", "M", "s", "g", ".", "i", "n", "c", "l", "u", "d", "e", "s", " ",
      "i", "s", " ", "n", "o", "t", " ", "a", " ", "f", "u", "n", "c", "t", "i", "o", "n">>

NoError == [cls |-> "none", status |-> 0, code |-> 0, message |-> <<>>, isRetryable |-> FALSE]

\* new GeminiError(message, isRetryable)
GeminiError(message, isRetryable) ==
    [cls |-> "GeminiError", status |-> 0, code |-> 0, message |-> message,
     isRetryable |-> isRetryable]

\* an error of the transport: an Error carrying the status and code given
RawError(status, code, message) ==
    [cls |-> "Error", status |-> status, code |-> code, message |-> message,
     isRetryable |-> FALSE]

Quoted(s) == <<"\"">> \o s \o <<"\"">>

RECURSIVE JoinComma(_)
JoinComma(items) ==
    IF items = <<>> THEN <<>>
    ELSE IF Len(items) = 1 THEN items[1]
    ELSE items[1] \o <<",">> \o JoinComma(Tail(items))

\* JSON.stringify(error): the own enumerable properties of the object.  The
\* message of an Error is not enumerable; a GeminiError owns isRetryable (the
\* constructor's parameter property) and name (assigned in the constructor).
JsonStringifyError(e) ==
    LET gemini == IF e.cls = "GeminiError"
                  THEN << Quoted(T_isRetryable) \o <<":">> \o
                              (IF e.isRetryable THEN T_true ELSE T_false),
                          Quoted(T_name) \o <<":">> \o Quoted(T_GeminiError) >>
                  ELSE <<>>
        status == IF e.status # 0
                  THEN << Quoted(T_status) \o <<":">> \o NumberToText(e.status) >>
                  ELSE <<>>
        code   == IF e.code # 0
                  THEN << Quoted(T_code) \o <<":">> \o NumberToText(e.code) >>
                  ELSE <<>>
    IN  <<"{">> \o JoinComma(gemini \o status \o code) \o <<"}">>

(***************************************************************************)
(* retryOperation (geminiService.ts 24-39).                                *)
(***************************************************************************)
\* const isRateLimit = ... (line 31)
IsRateLimit(error) ==
    LET errorString == JsonStringifyError(error)
    IN  \/ error.status = 429
        \/ error.code = 429
        \/ Includes(errorString, T_429)
        \/ Includes(errorString, T_quota)
        \/ Includes(errorString, T_RESOURCE_EXHAUSTED)

\* the condition of line 33
ShouldRetry(error, retries) ==
    /\ retries > 0
    /\ \/ error.status = 503
       \/ IsRateLimit(error)
       \/ Includes(error.message, T_fetch)

(***************************************************************************)
(* The catch wrapper of the session operation (geminiService.ts 418-448).  *)
(***************************************************************************)
\* a plausible slip: only the status decides, the message texts are not read
QuotaIndicatedStatusOnly(status, errorMsg) == status = 429

\* the condition of line 442
QuotaIndicated(status, errorMsg) ==
    \/ status = 429
    \/ Includes(errorMsg, T_429)
    \/ Includes(errorMsg, T_quota)
    \/ Includes(errorMsg, T_RESOURCE_EXHAUSTED)

\* a number when the value is one; -1 stands for any value that is not === 429
StatusOf(v, fallback) ==
    IF ~Truthy(v) THEN fallback ELSE IF v.t = "number" THEN v.n ELSE -1

\* lines 424-439: the message and status after the attempt to unwrap a nested
\* serialized body; msg is a JSON value, since the nested message may be no
\* string.  A JSON.parse failure is swallowed and leaves both unchanged.
Unwrapped(error) ==
    LET errorMsg == IF error.message # <<>> THEN error.message ELSE UnknownApiErrorMessage
        status   == IF error.status # 0 THEN error.status ELSE error.code
        parsed   == JsonParse(errorMsg)
        inner    == Member(parsed.val, T_error)
    IN  IF IsPrefixAt(Trim(errorMsg), <<"{">>, 1) /\ parsed.ok /\ Truthy(inner)
        THEN [msg    |-> IF Truthy(Member(inner, T_message))
                         THEN Member(inner, T_message) ELSE JStr(errorMsg),
              status |-> StatusOf(Member(inner, T_code), status)]
        ELSE [msg |-> JStr(errorMsg), status |-> status]

\* a plausible slip: every failure is wrapped anew, the GeminiErrors raised
\* by the extraction included
WrapErrorRewrapsAll(error) ==
    LET u == Unwrapped(error)
    IN  IF u.msg.t # "string" THEN RawError(0, 0, IncludesTypeErrorMessage)
        ELSE IF QuotaIndicated(u.status, u.msg.s) THEN GeminiError(QuotaMessage, TRUE)
        ELSE GeminiError(u.msg.s, TRUE)

\* a plausible slip: the unwrapped message is surfaced for quota failures too
WrapErrorKeepsMessage(error) ==
    LET u == Unwrapped(error)
    IN  IF u.msg.t # "string" THEN RawError(0, 0, IncludesTypeErrorMessage)
        ELSE IF error.cls = "GeminiError" THEN error
        ELSE GeminiError(u.msg.s, TRUE)

\* the error the catch block throws for the error it caught (lines 441-447)
WrapError(error) ==
    LET u == Unwrapped(error)
    IN  IF u.msg.t # "string" THEN RawError(0, 0, IncludesTypeErrorMessage)
        ELSE IF QuotaIndicated(u.status, u.msg.s) THEN GeminiError(QuotaMessage, TRUE)
        ELSE IF error.cls = "GeminiError" THEN error
        ELSE GeminiError(u.msg.s, TRUE)

\* a plausible slip: the slice ends at the first "}" instead of the last
PayloadTextToFirstClose(finalJsonText) ==
    LET cleanText  == CleanText(finalJsonText)
        firstBrace == IndexOf(cleanText, <<"{">>, 1)
        lastBrace  == IndexOf(cleanText, <<"}">>, 1)
    IN  IF firstBrace # 0 /\ lastBrace # 0 /\ lastBrace > firstBrace
        THEN Substring(cleanText, firstBrace, lastBrace)
        ELSE Trim(cleanText)

(***************************************************************************)
(* Extraction of the terminal payload (geminiService.ts 395-416).          *)
(***************************************************************************)
\* lines 399-409: the text handed to JSON.parse
PayloadText(finalJsonText) ==
    LET cleanText  == CleanText(finalJsonText)
        firstBrace == IndexOf(cleanText, <<"{">>, 1)
        lastBrace  == LastIndexOf(cleanText, <<"}">>)
    IN  IF firstBrace # 0 /\ lastBrace # 0 /\ lastBrace > firstBrace
        THEN Substring(cleanText, firstBrace, lastBrace)
        ELSE Trim(cleanText)

\* lines 395-416: [ok, report, error]; ok = FALSE is the throw of error
Extract(finalJsonText) ==
    IF finalJsonText = <<>>
    THEN [ok |-> FALSE, report |-> Undefined, error |-> GeminiError(NoOutputMessage, TRUE)]
    ELSE LET parsed == JsonParse(PayloadText(finalJsonText))
         IN  IF parsed.ok
             THEN [ok |-> TRUE, report |-> parsed.val, error |-> NoError]
             ELSE [ok |-> FALSE, report |-> Undefined,
                   error |-> GeminiError(MalformedMessage, FALSE)]

(***************************************************************************)
(* The local carbon tool (geminiService.ts 7-13 and 363-386).              *)
(***************************************************************************)
RegionKeys == {"us-central1", "asia-east1", "europe-west4", "global", "us-east1"}

\* names every object literal inherits from Object.prototype
ObjectPrototypeKeys == {"constructor", "toString", "valueOf", "__proto__"}

\* an inherited member: a function or an object, truthy and not a number
Inherited == -1

\* REGION_CARBON_INTENSITY[region], a property read of the object literal of
\* lines 7-13: its own entry, an inherited member, or undefined (0)
RegionCarbonIntensity(region) ==
    CASE region = "us-central1"  -> 360
      [] region = "asia-east1"   -> 620
      [] region = "europe-west4" -> 180
      [] region = "global"       -> 450
      [] region = "us-east1"     -> 480
      [] region \in ObjectPrototypeKeys -> Inherited
      [] OTHER                   -> 0

CarbonToolName == "calculate_carbon_footprint"

\* a tool-call request; energyJoules = 0 and region = "" stand for absent
\* arguments (both are replaced by the same defaults as a falsy value)
ToolCall(id, name, energyJoules, region) ==
    [id |-> id, name |-> name, energyJoules |-> energyJoules, region |-> region]

\* lines 366-376: the values the tool computes for one recognized call; the
\* grams are joules / 3600000 * intensity, kept as an exact fraction; the
\* product with an intensity that is not a number is NaN, written 0/0
CarbonResult(call) ==
    LET joules    == call.energyJoules
        region    == IF call.region # "" THEN call.region ELSE "global"
        intensity == IF RegionCarbonIntensity(region) # 0
                     THEN RegionCarbonIntensity(region)
                     ELSE RegionCarbonIntensity("global")
    IN  [joules |-> joules, region |-> region, intensity |-> intensity,
         gramsNum |-> IF intensity = Inherited THEN 0 ELSE joules * intensity,
         gramsDen |-> IF intensity = Inherited THEN 0 ELSE 3600000]

NoData == [joules |-> 0, region |-> "", intensity |-> 0, gramsNum |-> 0, gramsDen |-> 1]

\* an argument of onChunk: src is where the call is made ("preamble",
\* "stream", "tool"), tag names a fixed text of the source, text holds the
\* characters of streamed narration, data the values a tool line prints
Chunk(src, tag, text, data) == [src |-> src, tag |-> tag, text |-> text, data |-> data]

RECURSIVE ToolResponsesNewestFirst(_)
\* a plausible slip: the responses are collected newest first
ToolResponsesNewestFirst(toolCalls) ==
    IF toolCalls = <<>> THEN <<>>
    ELSE LET call == Head(toolCalls)
             rest == ToolResponsesNewestFirst(Tail(toolCalls))
         IN  IF call.name = CarbonToolName
             THEN rest \o << [id |-> call.id, name |-> call.name,
                              result |-> CarbonResult(call)] >>
             ELSE rest

\* a plausible slip: every call is answered, a call of an unregistered name
\* with an empty result
ToolResponsesAnswersAll(toolCalls) ==
    [i \in 1..Len(toolCalls) |->
        [id |-> toolCalls[i].id, name |-> toolCalls[i].name,
         result |-> IF toolCalls[i].name = CarbonToolName
                    THEN CarbonResult(toolCalls[i]) ELSE NoData]]

RECURSIVE ToolResponses(_)
\* lines 361-386: functionResponses, one per call of the registered name
ToolResponses(toolCalls) ==
    IF toolCalls = <<>> THEN <<>>
    ELSE LET call == Head(toolCalls)
             rest == ToolResponses(Tail(toolCalls))
         IN  IF call.name = CarbonToolName
             THEN << [id |-> call.id, name |-> call.name,
                      result |-> CarbonResult(call)] >> \o rest
             ELSE rest

RECURSIVE ToolNarration(_)
\* line 378: the onChunk calls of the tool loop, one per recognized call
ToolNarration(toolCalls) ==
    IF toolCalls = <<>> THEN <<>>
    ELSE LET call == Head(toolCalls)
             rest == ToolNarration(Tail(toolCalls))
         IN  IF call.name = CarbonToolName
             THEN << Chunk("tool", "Calculating Carbon", <<>>, CarbonResult(call)) >> \o rest
             ELSE rest

(***************************************************************************)
(* One streamed fragment (geminiService.ts 331-354).                       *)
(***************************************************************************)
\* lines 338-343: the onPhaseChange calls made for a fragment's text
ChunkPhases(text) ==
    LET match == PhaseMatch(text)
    IN  IF match.found THEN << Trim(match.name) >> ELSE <<>>

\* a plausible slip: the narration is withheld while the stream is read
ChunkNarrationWithheld(text) == <<>>

\* lines 345-348: the onChunk calls made for a fragment's text
ChunkNarration(text) ==
    LET cleanChunk == CleanChunk(text)
    IN  IF cleanChunk # <<>> THEN << Chunk("stream", "", cleanChunk, NoData) >> ELSE <<>>

(***************************************************************************)
(* Inputs: what the backend can answer and how a request can fail.         *)
(***************************************************************************)
\* most fragments one stream delivers
MaxFrags == 2

\* the counters of calls made saturate here (they are observations, not
\* state of the program)
MaxCount == 2

\* largest retry budget retryOperation is called with on its own
MaxRetries == 2

\* retries = 1, delay = 2000: the defaults of retryOperation
DefaultRetries == 1

DefaultDelay == 2000

Count(n) == IF n < MaxCount THEN n + 1 ELSE MaxCount

F_hi == <<"H", "i">>

F_tag == <<"[", "[", "P", "H", "A", "S", "E", ":", " ", "S", "E", "A", "R", "C", "H", "]", "]">>

F_tagHead == <<"[", "[", "P", "H", "A", "S", "E", ":", " ", "S", "E", "A">>

F_tagTail == <<"R", "C", "H", "]", "]">>

F_json == <<"{", "\"", "a", "\"", ":", "1", "}">>

F_bad == <<"{", "\"", "a", "\"", ":", "1">>

\* chunk.text of the fragments a stream is made of
FragTexts == {<<>>, F_hi, F_tag, F_tagHead, F_tagTail, F_json, F_bad}

\* chunk.functionCalls entries: the registered tool, and a tool that is not
\* registered
ToolCalls ==
    { ToolCall("c1", CarbonToolName, 3600000, "us-central1"),
      ToolCall("c3", "lookup_specs", 0, "") }

\* the fragments: text alone, and a tool call with text or without
Fragments ==
    {[text |-> t, functionCalls |-> <<>>] : t \in FragTexts}
        \cup {[text |-> IF c.id = "c1" THEN F_hi ELSE <<>>, functionCalls |-> <<c>>] :
                  c \in ToolCalls}

M_fetch == <<"F", "a", "i", "l", "e", "d", " ", "t", "o", " ", "f", "e", "t", "c", "h">>

M_boom == <<"b", "o", "o", "m">>

M_quotaText == <<"q", "u", "o", "t", "a", " ", "e", "x", "c", "e", "e", "d", "e", "d">>

M_overloaded == <<"o", "v", "e", "r", "l", "o", "a", "d", "e", "d">>

M_notJson == <<"{", "o", "o", "p", "s">>

\* the serialized body {"error":{"code":<code>,"message":"<message>"}}
NestedBody(code, message) ==
    <<"{">> \o Quoted(T_error) \o <<":", "{">> \o Quoted(T_code) \o <<":">>
        \o NumberToText(code) \o <<",">> \o Quoted(T_message) \o <<":">>
        \o Quoted(message) \o <<"}", "}">>

\* messages that are no serialized body
PlainMessages == {<<>>, M_fetch, M_boom, M_quotaText, M_notJson}

\* The failures of the transport.  Status, code and serialized body, where
\* present, come from one response and agree.
RawErrors ==
    { RawError(sc[1], sc[2], m) :
          sc \in {<<0, 0>>, <<429, 0>>, <<0, 429>>, <<429, 429>>, <<503, 0>>},
          m \in PlainMessages }
        \cup { RawError(sc[1], sc[2], NestedBody(429, T_quota)) :
                  sc \in {<<0, 0>>, <<429, 0>>, <<0, 429>>, <<429, 429>>} }
        \cup { RawError(s, 0, NestedBody(503, M_overloaded)) : s \in {0, 503} }

(***************************************************************************)
(* The pattern scanner (staticAnalyzer.ts 22-154).  A finding keeps the    *)
(* fields of StaticAnalysis; estimatedFlops is counted in thousandths, an  *)
(* error is [kind, open, close], and a highlight is [label, lineNumbers]:  *)
(* its suggestion is the one fixed text the source gives each label.       *)
(***************************************************************************)
\* the characters \w matches
WordChars ==
    { "a", "b", "c", "d", "e", "f", "g", "h", "i", "j", "k", "l", "m", "n", "o", "p",
      "q", "r", "s", "t", "u", "v", "w", "x", "y", "z", "A", "B", "C", "D", "E", "F",
      "G", "H", "I", "J", "K", "L", "M", "N", "O", "P", "Q", "R", "S", "T", "U", "V",
      "W", "X", "Y", "Z", "0", "1", "2", "3", "4", "5", "6", "7", "8", "9", "_" }

\* last position of the run of characters of C that starts at i; i - 1 when
\* the run is empty
RunEnd(s, i, C) ==
    LET stops == {j \in i..Len(s) : s[j] \notin C}
    IN  IF stops = {} THEN Len(s) ELSE MinOf(stops) - 1

\* /a\s+b/ matches somewhere in s
Spaced(s, a, b) ==
    \E i \in 1..Len(s) :
        /\ IsPrefixAt(s, a, i)
        /\ i + Len(a) <= Len(s)
        /\ s[i + Len(a)] \in WhiteSpace
        /\ IsPrefixAt(s, b, SkipWs(s, i + Len(a)))

\* a plausible slip: lines are counted from 0
GetLineFromIndexZeroBased(code, i) == Cardinality({k \in 1..(i - 1) : code[k] = "\n"})

\* lines 22-24: code.substring(0, index).split('\n').length, for the match
\* that starts at the 1-based position i
GetLineFromIndex(code, i) == Cardinality({k \in 1..(i - 1) : code[k] = "\n"}) + 1

\* line 49: the match of /^import\s+[\w.]+(?:\s+as\s+\w+)?/m that starts at
\* i, as its last position; 0 when there is none
ImportEnd(s, i) ==
    IF ~(i = 1 \/ s[i - 1] \in LineTerminator) \/ ~IsPrefixAt(s, <<"i", "m", "p", "o", "r", "t">>, i)
    THEN 0
    ELSE LET j == i + 6
             k == SkipWs(s, j)
             e == RunEnd(s, k, WordChars \cup {"."})
             p == SkipWs(s, e + 1)
             r == SkipWs(s, p + 2)
             f == RunEnd(s, r, WordChars)
         IN  IF k = j \/ e < k THEN 0
             ELSE IF p > e + 1 /\ IsPrefixAt(s, <<"a", "s">>, p) /\ r > p + 2 /\ f >= r
                  THEN f
                  ELSE e

RECURSIVE ImportsFrom(_, _)
\* line 49-50: code.match(.../gm) from position i on, each match trimmed
ImportsFrom(s, i) ==
    LET hits == {j \in i..Len(s) : ImportEnd(s, j) # 0}
    IN  IF hits = {} THEN <<>>
        ELSE <<Trim(SubSeq(s, MinOf(hits), ImportEnd(s, MinOf(hits))))>>
                 \o ImportsFrom(s, ImportEnd(s, MinOf(hits)) + 1)

\* line 52-54: the error of a text without "import torch"
MissingImport(code) ==
    IF ~Includes(code, <<"i", "m", "p", "o", "r", "t", " ", "t", "o", "r", "c", "h">>)
    THEN << [kind |-> "Missing import torch", open |-> 0, close |-> 0] >>
    ELSE <<>>

\* line 67: /for\s+.*\s+in/ matches somewhere in s
ForIn(s) ==
    \E i \in 1..Len(s) :
        /\ IsPrefixAt(s, <<"f", "o", "r">>, i)
        /\ \E a \in (i + 4)..SkipWs(s, i + 3) : \E c \in (a + 1)..Len(s) :
              /\ IsPrefixAt(s, <<"i", "n">>, c)
              /\ \E b \in a..(c - 1) :
                    /\ \A k \in a..(b - 1) : s[k] \notin LineTerminator
                    /\ \A k \in b..(c - 1) : s[k] \in WhiteSpace

\* lines 58-69: the abstraction checks that fire, in the order of the source
AbstractionWarnings(code) ==
    (IF Spaced(code, <<"d", "e", "f">>, <<"m", "a", "k", "e", "_", "l", "a", "y", "e", "r">>)
          \/ Spaced(code, <<"d", "e", "f">>, <<"_", "m", "a", "k", "e", "_", "l", "a", "y", "e", "r">>)
     THEN <<"Layer Factory">> ELSE <<>>)
    \o (IF Includes(code, <<"*", "a", "r", "g", "s">>)
           \/ Includes(code, <<"*", "*", "k", "w", "a", "r", "g", "s">>)
        THEN <<"Dynamic Arguments">> ELSE <<>>)
    \o (IF Includes(code, <<"h", "y", "d", "r", "a", ".", "m", "a", "i", "n">>) \/ Includes(code, <<"c", "f", "g", ".">>)
        THEN <<"Configuration Injection">> ELSE <<>>)
    \o (IF Includes(code, <<"n", "n", ".", "M", "o", "d", "u", "l", "e", "L", "i", "s", "t">>) /\ ForIn(code)
        THEN <<"Dynamic Module Loops">> ELSE <<>>)

\* lines 72-78: the constructs; signature is the literal text the expression
\* opens with, captures tells whether it goes on with ([^)]+)\) after the
\* parenthesis, weight is in thousandths
Ops ==
    << [name |-> "Conv2d", signature |-> <<"n", "n", ".", "C", "o", "n", "v", "2", "d">>,
        captures |-> TRUE, weight |-> 500],
       [name |-> "Linear", signature |-> <<"n", "n", ".", "L", "i", "n", "e", "a", "r">>,
        captures |-> TRUE, weight |-> 100],
       [name |-> "BatchNorm", signature |-> <<"n", "n", ".", "B", "a", "t", "c", "h", "N", "o", "r", "m", "2", "d">>,
        captures |-> FALSE, weight |-> 10],
       [name |-> "ReLU", signature |-> <<"n", "n", ".", "R", "e", "L", "U">>,
        captures |-> FALSE, weight |-> 0],
       [name |-> "MultiheadAttention",
        signature |-> <<"n", "n", ".", "M", "u", "l", "t", "i", "h", "e", "a", "d", "A", "t", "t", "e", "n", "t", "i", "o", "n">>,
        captures |-> FALSE, weight |-> 800] >>

\* the match of an op's expression that starts at i, as [end, args] with args
\* = match[1]; end = 0 when there is none.  \s* takes the white space before
\* the parenthesis; [^)]+ needs one character and runs to the first ")"
OpMatchAt(s, i, op) ==
    IF ~IsPrefixAt(s, op.signature, i) THEN [end |-> 0, args |-> <<>>]
    ELSE LET p == SkipWs(s, i + Len(op.signature))
             c == IndexOf(s, <<")">>, p + 1)
         IN  IF p > Len(s) \/ s[p] # "(" THEN [end |-> 0, args |-> <<>>]
             ELSE IF ~op.captures THEN [end |-> p, args |-> <<>>]
             ELSE IF c = 0 \/ c = p + 1 THEN [end |-> 0, args |-> <<>>]
             ELSE [end |-> c, args |-> SubSeq(s, p + 1, c - 1)]

RECURSIVE OpMatchesFrom(_, _, _)
\* line 84: the matches regex.exec finds from position i on, each search
\* resuming after the previous match, as [index, args]
OpMatchesFrom(s, i, op) ==
    LET j == IndexOf(s, op.signature, i)
    IN  IF i > Len(s) \/ j = 0 THEN <<>>
        ELSE LET m == OpMatchAt(s, j, op)
             IN  IF m.end = 0 THEN OpMatchesFrom(s, j + 1, op)
                 ELSE <<[index |-> j, args |-> m.args]>> \o OpMatchesFrom(s, m.end + 1, op)

\* lines 41-46: addHighlight on the map, kept as [label, lines] entries in
\* the order the labels were first added
AddHighlight(highlightsMap, label, line) ==
    IF \E k \in 1..Len(highlightsMap) : highlightsMap[k].label = label
    THEN [k \in 1..Len(highlightsMap) |->
            IF highlightsMap[k].label = label
            THEN [highlightsMap[k] EXCEPT !.lines = @ \cup {line}]
            ELSE highlightsMap[k]]
    ELSE Append(highlightsMap, [label |-> label, lines |-> {line}])

\* line 94: args.includes('groups=') && !args.includes('groups=1')
IsGrouped(args) ==
    /\ Includes(args, <<"g", "r", "o", "u", "p", "s", "=">>)
    /\ ~Includes(args, <<"g", "r", "o", "u", "p", "s", "=", "1">>)

\* line 91: args.includes('stride=2') || args.includes('stride = 2')
IsStrided(args) ==
    \/ Includes(args, <<"s", "t", "r", "i", "d", "e", "=", "2">>)
    \/ Includes(args, <<"s", "t", "r", "i", "d", "e", " ", "=", " ", "2">>)

\* lines 87-100: the highlights one match adds
MatchHighlights(highlightsMap, code, op, match) ==
    LET line    == GetLineFromIndex(code, match.index)
        strided == IF op.name = "Conv2d" /\ match.args # <<>> /\ IsStrided(match.args)
                   THEN AddHighlight(highlightsMap, "Spatial Downsampling", line)
                   ELSE highlightsMap
        grouped == IF op.name = "Conv2d" /\ match.args # <<>> /\ IsGrouped(match.args)
                   THEN AddHighlight(strided, "Grouped Convolution", line)
                   ELSE strided
    IN  IF op.name = "MultiheadAttention"
        THEN AddHighlight(grouped, "Attention Mechanism", line)
        ELSE grouped

RECURSIVE MatchesHighlights(_, _, _, _)
MatchesHighlights(highlightsMap, code, op, matches) ==
    IF matches = <<>> THEN highlightsMap
    ELSE MatchesHighlights(MatchHighlights(highlightsMap, code, op, Head(matches)),
                           code, op, Tail(matches))

\* line 102: layerCounts[op.name] = count, on [name, count] entries kept in
\* insertion order
SetCount(layerCounts, name, count) ==
    IF \E k \in 1..Len(layerCounts) : layerCounts[k].name = name
    THEN [k \in 1..Len(layerCounts) |->
            IF layerCounts[k].name = name THEN [name |-> name, count |-> count]
            ELSE layerCounts[k]]
    ELSE Append(layerCounts, [name |-> name, count |-> count])

\* a plausible slip: every construct gets an entry, matched or not
CountRecordedAlways(count) == TRUE

\* line 102: if (count > 0)
CountRecorded(count) == count > 0

\* lines 80-103: one round of ops.forEach on the locals
ApplyOp(locals, op) ==
    LET matches == OpMatchesFrom(locals.code, 1, op)
        count   == Len(matches)
    IN  [locals EXCEPT
            !.currentFlops = @ + count * op.weight,
            !.highlightsMap = MatchesHighlights(@, locals.code, op, matches),
            !.layerCounts = IF CountRecorded(count) THEN SetCount(@, op.name, count)
                            ELSE @]

RECURSIVE ApplyOps(_, _)
ApplyOps(locals, ops) ==
    IF ops = <<>> THEN locals ELSE ApplyOps(ApplyOp(locals, Head(ops)), Tail(ops))

\* line 106: the names an addition may assign to, and the operands it may add
ResidualTargets == << <<"o", "u", "t">>, <<"x">>, <<"o", "u", "t", "p", "u", "t">>, <<"y">> >>

\* last position of an operand (identity|x|residual|shortcut, and inp after
\* "+=", and self.name(...) after "+") that starts at t; 0 when none does.
\* The call's .* is greedy: it runs to the last ")" of the line
OperandEnd(s, t, afterPlusEquals) ==
    LET names  == { <<"i", "d", "e", "n", "t", "i", "t", "y">>, <<"x">>,
                    <<"r", "e", "s", "i", "d", "u", "a", "l">>,
                    <<"s", "h", "o", "r", "t", "c", "u", "t">> }
                      \cup (IF afterPlusEquals THEN { <<"i", "n", "p">> } ELSE {})
        hits   == {n \in names : IsPrefixAt(s, n, t)}
        e      == RunEnd(s, t + 5, WordChars)
        closes == {c \in (e + 2)..Len(s) :
                      /\ s[c] = ")"
                      /\ \A k \in (e + 2)..(c - 1) : s[k] \notin LineTerminator}
    IN  IF hits # {} THEN t + Len(CHOOSE n \in hits : TRUE) - 1
        ELSE IF ~afterPlusEquals /\ IsPrefixAt(s, <<"s", "e", "l", "f", ".">>, t)
                  /\ e >= t + 5 /\ e < Len(s) /\ s[e + 1] = "(" /\ closes # {}
             THEN MaxOf(closes)
             ELSE 0

\* last position of "target \s* +" followed by \s* and an operand, the target
\* starting at p; 0 when there is none
SumEnd(s, p) ==
    LET ends == {OperandEnd(s, SkipWs(s, SkipWs(s, p + Len(ResidualTargets[v])) + 1), FALSE) :
                    v \in {w \in 1..Len(ResidualTargets) :
                              /\ IsPrefixAt(s, ResidualTargets[w], p)
                              /\ IsPrefixAt(s, <<"+">>, SkipWs(s, p + Len(ResidualTargets[w])))}}
                 \ {0}
    IN  IF ends = {} THEN 0 ELSE MaxOf(ends)

\* line 106: last position of the match of residualRegex that starts at i;
\* 0 when there is none.  Its three alternatives are "target += operand",
\* "target = target + operand" and "return target + operand"
ResidualEnd(s, i) ==
    LET plusEquals ==
            {OperandEnd(s, SkipWs(s, SkipWs(s, i + Len(ResidualTargets[v])) + 2), TRUE) :
                v \in {w \in 1..Len(ResidualTargets) :
                          /\ IsPrefixAt(s, ResidualTargets[w], i)
                          /\ IsPrefixAt(s, <<"+", "=">>,
                                        SkipWs(s, i + Len(ResidualTargets[w])))}} \ {0}
        assigned ==
            {SumEnd(s, SkipWs(s, SkipWs(s, i + Len(ResidualTargets[v])) + 1)) :
                v \in {w \in 1..Len(ResidualTargets) :
                          /\ IsPrefixAt(s, ResidualTargets[w], i)
                          /\ IsPrefixAt(s, <<"=">>,
                                        SkipWs(s, i + Len(ResidualTargets[w])))}} \ {0}
        returned_ ==
            IF IsPrefixAt(s, <<"r", "e", "t", "u", "r", "n">>, i) /\ SkipWs(s, i + 6) > i + 6
            THEN SumEnd(s, SkipWs(s, i + 6))
            ELSE 0
    IN  IF plusEquals # {} THEN MaxOf(plusEquals)
        ELSE IF assigned # {} THEN MaxOf(assigned)
        ELSE returned_

RECURSIVE ResidualHighlights(_, _, _)
\* lines 108-115: one highlight for every match of residualRegex from i on,
\* each search resuming after the previous match
ResidualHighlights(highlightsMap, code, i) ==
    LET hits == {j \in i..Len(code) : ResidualEnd(code, j) # 0}
    IN  IF hits = {} THEN highlightsMap
        ELSE ResidualHighlights(
                 AddHighlight(highlightsMap, "Residual Connection",
                              GetLineFromIndex(code, MinOf(hits))),
                 code, ResidualEnd(code, MinOf(hits)) + 1)

RECURSIVE SumCounts(_)
\* line 118: Object.values(layerCounts).reduce((a, b) => a + b, 0)
SumCounts(layerCounts) ==
    IF layerCounts = <<>> THEN 0 ELSE Head(layerCounts).count + SumCounts(Tail(layerCounts))

\* line 119: the matches of /class\s+\w+\(nn\.Module\)/g
ClassDefs(code) ==
    Cardinality({i \in 1..Len(code) :
        /\ IsPrefixAt(code, <<"c", "l", "a", "s", "s">>, i)
        /\ SkipWs(code, i + 5) > i + 5
        /\ LET p == SkipWs(code, i + 5)
               e == RunEnd(code, p, WordChars)
           IN  e >= p /\ IsPrefixAt(code, <<"(", "n", "n", ".", "M", "o", "d", "u", "l", "e", ")">>, e + 1)})

\* a plausible slip: only the abstraction checks lower the confidence
RequiresDynamicTracingWarningsOnly(classDefs, totalLayers, warnings) == warnings > 0

\* line 123
RequiresDynamicTracing(classDefs, totalLayers, warnings) ==
    (classDefs > 0 /\ totalLayers = 0) \/ warnings > 0

\* a plausible slip: ten constructs already count as Medium
ComplexityLevelFromTen(requiresDynamicTracing, totalLayers) ==
    IF requiresDynamicTracing THEN "High"
    ELSE IF totalLayers >= 10 THEN "Medium"
    ELSE "Low"

\* lines 125-127
ComplexityLevel(requiresDynamicTracing, totalLayers) ==
    IF requiresDynamicTracing THEN "High"
    ELSE IF totalLayers > 10 THEN "Medium"
    ELSE "Low"

\* the locals of a call that has not begun: nothing is held
NoScan ==
    [step |-> "idle", code |-> <<>>, errors |-> <<>>, abstractionWarnings |-> <<>>,
     layerCounts |-> <<>>, currentFlops |-> 0, highlightsMap |-> <<>>, imports |-> <<>>,
     complexityLevel |-> "Low", requiresDynamicTracing |-> FALSE]

\* a plausible slip: the accumulators live outside the function and keep
\* what the previous call left in them
FreshLocalsKept(previous) == previous

\* lines 33-39: every call declares its accumulators anew
FreshLocals(previous) == NoScan

\* lines 33-127: the scan up to the complexity verdict
ScanBody(previous, code) ==
    LET fresh    == FreshLocals(previous)
        checked  == [fresh EXCEPT
                        !.code = code,
                        !.imports = ImportsFrom(code, 1),
                        !.errors = @ \o MissingImport(code),
                        !.abstractionWarnings = @ \o AbstractionWarnings(code)]
        counted  == ApplyOps(checked, Ops)
        total    == SumCounts(counted.layerCounts)
        tracing  == RequiresDynamicTracing(ClassDefs(code), total,
                                           Len(counted.abstractionWarnings))
    IN  [counted EXCEPT
            !.step = "syntax",
            !.highlightsMap = ResidualHighlights(@, code, 1),
            !.requiresDynamicTracing = tracing,
            !.complexityLevel = ComplexityLevel(tracing, total)]

\* a plausible slip: a text with unbalanced parentheses is not scanned
SyntaxCheckedAborts(locals) ==
    LET openParens  == Cardinality({k \in 1..Len(locals.code) : locals.code[k] = "("})
        closeParens == Cardinality({k \in 1..Len(locals.code) : locals.code[k] = ")"})
    IN  IF openParens # closeParens
        THEN [NoScan EXCEPT
                !.step = "return", !.code = locals.code,
                !.errors = << [kind |-> "Syntax Error", open |-> openParens,
                               close |-> closeParens] >>]
        ELSE [locals EXCEPT !.step = "return"]

\* lines 130-134: the basic syntax check
SyntaxChecked(locals) ==
    LET openParens  == Cardinality({k \in 1..Len(locals.code) : locals.code[k] = "("})
        closeParens == Cardinality({k \in 1..Len(locals.code) : locals.code[k] = ")"})
    IN  [locals EXCEPT
            !.step = "return",
            !.errors = IF openParens # closeParens
                       THEN Append(@, [kind |-> "Syntax Error", open |-> openParens,
                                       close |-> closeParens])
                       ELSE @]

RECURSIVE SortedLines(_)
\* line 139: Array.from(data.lines).sort((a, b) => a - b)
SortedLines(lines) ==
    IF lines = {} THEN <<>>
    ELSE <<MinOf(lines)>> \o SortedLines(lines \ {MinOf(lines)})

\* lines 137-153: the finding the call returns
Finding(locals) ==
    [isValid |-> Len(locals.errors) = 0,
     errors |-> locals.errors,
     estimatedFlops |-> locals.currentFlops,
     layerCounts |-> locals.layerCounts,
     imports |-> locals.imports,
     structuralHighlights |->
        [k \in 1..Len(locals.highlightsMap) |->
            [label |-> locals.highlightsMap[k].label,
             lineNumbers |-> SortedLines(locals.highlightsMap[k].lines)]],
     complexityLevel |-> locals.complexityLevel,
     requiresDynamicTracing |-> locals.requiresDynamicTracing,
     abstractionWarnings |-> locals.abstractionWarnings]

\* analyzeCodeStatic(code)
AnalyzeCodeStatic(code) == Finding(SyntaxChecked(ScanBody(NoScan, code)))

\* what analyzeCodeStatic reports of the code under audit, as far as the
\* preamble reads it: requiresDynamicTracing and estimatedFlops < 1.0
StaticFindings == [requiresDynamicTracing : BOOLEAN, lowFlops : BOOLEAN]

\* lines 113-121: the router line of the preamble
RouterTier(staticData, hasImage) ==
    IF staticData.requiresDynamicTracing THEN "High"
    ELSE IF staticData.lowFlops /\ ~hasImage THEN "Low"
    ELSE "Medium"

(***************************************************************************)
(* State.                                                                  *)
(***************************************************************************)
VARIABLES
    pc,              \* where the call stands: "idle", "attempt", "send",
                     \* "streaming", "tools", "extract", "caught",
                     \* "retry_catch", "sleeping", "running", "done", "failed"
    operation,       \* the operation retryOperation runs: "session" (the
                     \* closure of line 227) or "abstract" (any operation)
    apiKey,          \* whether the apiKey argument is non-empty
    retries,         \* retryOperation's retries parameter
    delay,           \* retryOperation's delay parameter
    thrown,          \* the error being propagated
    currentMessage,  \* the loop's currentMessage: the parts or function responses
    finalJsonText,   \* the loop's finalJsonText
    accumulatedText, \* the turn's accumulatedText
    toolCalls,       \* the turn's toolCalls
    nFrags,          \* fragments the open stream has delivered
    turns,           \* streams this attempt has opened (saturating)
    rounds,          \* tool rounds this attempt has run (saturating)
    streamsOpen,     \* streams opened and not yet ended
    inFlight,        \* invocations of the operation that have not settled
    returned,        \* the value the call resolved with, Undefined before
    raised,          \* the error the call rejected with, NoError before
    \* observations of the run
    attempts,        \* invocations of the operation so far
    sleeps,          \* the delays slept, in order
    cause,           \* what made the latest attempt fail, before wrapping
    firstCause,      \* the same for the first attempt
    lost,            \* the traced narration onChunk was handed in the step
                     \* before the stream of a failed attempt broke
    emitted,         \* the onChunk arguments of the latest step, in order
    phases,          \* the onPhaseChange arguments of the latest step
    nChunkCalls,     \* onChunk calls so far (saturating)
    nPhaseCalls,     \* onPhaseChange calls so far (saturating)
    streamsOpened,   \* sendMessageStream calls that returned a stream (saturating)
    scans,           \* analyzeCodeStatic calls so far
    malformedLog,    \* the texts console.error reports as malformed (line 414)
    initial,         \* the retries and delay retryOperation was first called with
    \* the text functions on their own
    txt,             \* the text a function is applied to
    fn,              \* the function applied: "none", "cleanChunk", "cleanText",
                     \* "fragment", "extract"
    out,             \* what it returned
    embedding,       \* the prefix, payload and suffix the text was made of
    \* the pattern scanner
    scanner,         \* the locals of the call of analyzeCodeStatic under way
    scanned,         \* the calls that returned, as <<code, finding>>
    \* the other components
    gate,            \* the routed tier, the model of the chat created and the
                     \* requests sent, when the gate is followed on its own
    chat,            \* the V38 chat: the browser's storage and clock and the
                     \* mounted instances of the modal
    app,             \* the state of the App component
    demo             \* the ScenarioEngine's timers and the callbacks it made

vars ==
    << pc, operation, apiKey, retries, delay, thrown, currentMessage, finalJsonText,
       accumulatedText, toolCalls, nFrags, turns, rounds, streamsOpen, inFlight,
       returned, raised, attempts, sleeps, cause, firstCause, lost, emitted, phases, nChunkCalls, nPhaseCalls,
       streamsOpened, scans, malformedLog, initial, txt, fn, out, embedding, scanner, scanned,
       gate, chat, app, demo >>

\* what no step of a call changes
inputs == <<operation, apiKey, initial, txt, fn, out, embedding, scanner, scanned,
            gate, chat, app, demo>>

\* let currentMessage = parts (line 320); responses is empty for the parts
InitialMessage == [kind |-> "parts", responses |-> <<>>]

\* the locals of one invocation of the session operation (lines 320-329)
LocalsReset ==
    /\ currentMessage' = InitialMessage
    /\ finalJsonText' = <<>>
    /\ accumulatedText' = <<>>
    /\ toolCalls' = <<>>
    /\ nFrags' = 0
    /\ turns' = 0
    /\ rounds' = 0

LocalsUnchanged ==
    UNCHANGED <<currentMessage, finalJsonText, accumulatedText, toolCalls, nFrags, turns, rounds>>

RetryUnchanged == UNCHANGED <<retries, delay, sleeps>>

\* the callbacks are not called in this step
Silent == emitted' = <<>> /\ phases' = <<>> /\ UNCHANGED <<nChunkCalls, nPhaseCalls>>

RECURSIVE CountBy(_, _)
CountBy(n, k) == IF k = 0 THEN n ELSE CountBy(Count(n), k - 1)

\* the callbacks are called with these arguments in this step
Calls(chunks, names) ==
    /\ emitted' = chunks
    /\ phases' = names
    /\ nChunkCalls' = CountBy(nChunkCalls, Len(chunks))
    /\ nPhaseCalls' = CountBy(nPhaseCalls, Len(names))

\* no chat has been created and no request sent
NoGate == [tier |-> "none", model |-> "none", requests |-> 0]

\* the chat modal is not mounted
NoChat == <<>>

\* the App component is not mounted
NoApp == <<>>

\* no scenario has been started
NoDemo == [scenario |-> "none", energyValue |-> 0, energyBudget |-> 0, pos |-> 0,
           events |-> <<>>]

\* the text was not made of parts
NoEmbedding == [prefix |-> <<>>, payload |-> <<>>, suffix |-> <<>>]

\* no call has been made
CallStart ==
    /\ thrown = NoError
    /\ currentMessage = InitialMessage
    /\ finalJsonText = <<>>
    /\ accumulatedText = <<>>
    /\ toolCalls = <<>>
    /\ nFrags = 0
    /\ turns = 0
    /\ rounds = 0
    /\ streamsOpen = 0
    /\ inFlight = 0
    /\ returned = Undefined
    /\ raised = NoError
    /\ attempts = 0
    /\ sleeps = <<>>
    /\ cause = NoError
    /\ firstCause = NoError
    /\ lost = <<>>
    /\ emitted = <<>>
    /\ phases = <<>>
    /\ nChunkCalls = 0
    /\ nPhaseCalls = 0
    /\ streamsOpened = 0
    /\ scans = 0
    /\ malformedLog = <<>>
    /\ scanner = NoScan
    /\ scanned = {}

StartState ==
    /\ CallStart
    /\ gate = NoGate
    /\ chat = NoChat
    /\ app = NoApp
    /\ demo = NoDemo

\* analyzeAndOptimizeStream is called, with or without a credential
Init ==
    /\ pc = "idle"
    /\ operation = "session"
    /\ apiKey \in BOOLEAN
    /\ retries = DefaultRetries
    /\ delay = DefaultDelay
    /\ initial = [retries |-> DefaultRetries, delay |-> DefaultDelay]
    /\ txt = <<>> /\ fn = "none" /\ out = <<>>
    /\ embedding = NoEmbedding
    /\ StartState

\* the failure an attempt ends with is noted, for the first attempt apart
Failure(error) ==
    /\ cause' = error
    /\ firstCause' = IF attempts = 1 THEN error ELSE firstCause

NoFailure == UNCHANGED <<cause, firstCause, lost>>

(***************************************************************************)
(* analyzeAndOptimizeStream (geminiService.ts 85-450).                     *)
(***************************************************************************)
\* a plausible slip: the credential is not checked before the preamble
CallProceedsUnchecked(key) == TRUE

\* line 95: the call goes on past the credential check
CallProceeds(key) == key

\* Lines 95-227: the credential check, the scanner, the preamble lines, the
\* image step (its warning when the image cannot be processed), and the call
\* of retryOperation.
Call ==
    /\ pc = "idle"
    /\ operation = "session"
    /\ IF ~CallProceeds(apiKey)
       THEN /\ raised' = GeminiError(MissingKeyMessage, FALSE)
            /\ pc' = "failed"
            /\ Silent
            /\ UNCHANGED scans
       ELSE /\ \E staticData \in StaticFindings, image \in {"none", "ok", "fails"} :
                Calls(<< Chunk("preamble", "L1 Gate", <<>>, NoData),
                         Chunk("preamble", RouterTier(staticData, image # "none"), <<>>, NoData) >>
                        \o (IF image = "fails"
                            THEN << Chunk("preamble", "System Warning", <<>>, NoData) >>
                            ELSE <<>>),
                      <<>>)
            /\ scans' = scans + 1
            /\ pc' = "attempt"
            /\ UNCHANGED raised
    /\ UNCHANGED <<inputs, thrown, streamsOpen, inFlight, returned, attempts,
                   streamsOpened, malformedLog>>
    /\ LocalsUnchanged /\ RetryUnchanged /\ NoFailure

\* line 26: retryOperation invokes the operation; the session operation
\* creates the chat and its locals (lines 229-322)
Attempt ==
    /\ pc = "attempt"
    /\ attempts' = attempts + 1
    /\ inFlight' = inFlight + 1
    /\ pc' = IF operation = "session" THEN "send" ELSE "running"
    /\ LocalsReset
    /\ Silent
    /\ UNCHANGED <<inputs, thrown, streamsOpen, returned, raised, streamsOpened,
                   scans, malformedLog>>
    /\ RetryUnchanged /\ NoFailure

\* lines 324-329: a turn's request is sent and the backend opens its stream
SendOk ==
    /\ pc = "send"
    /\ pc' = "streaming"
    /\ streamsOpen' = streamsOpen + 1
    /\ streamsOpened' = Count(streamsOpened)
    /\ turns' = (IF turns <= MaxCount THEN turns + 1 ELSE turns)
    /\ accumulatedText' = <<>>
    /\ toolCalls' = <<>>
    /\ nFrags' = 0
    /\ Silent
    /\ UNCHANGED <<inputs, thrown, currentMessage, finalJsonText, rounds, inFlight,
                   returned, raised, attempts, scans, malformedLog>>
    /\ RetryUnchanged /\ NoFailure

\* line 327: the request fails; control passes to the catch of line 418
SendFails ==
    /\ pc = "send"
    /\ \E error \in RawErrors : thrown' = error /\ Failure(error)
    /\ pc' = "caught"
    /\ LocalsReset
    /\ Silent
    /\ UNCHANGED <<inputs, streamsOpen, inFlight, returned, raised, attempts,
                   streamsOpened, scans, malformedLog, lost>>
    /\ RetryUnchanged

\* lines 331-354: one fragment of the stream
StreamChunk ==
    /\ pc = "streaming"
    /\ nFrags < MaxFrags
    /\ \E chunk \in Fragments :
          /\ accumulatedText' = accumulatedText \o chunk.text
          /\ finalJsonText' = finalJsonText \o chunk.text
          /\ Calls(ChunkNarration(chunk.text), ChunkPhases(chunk.text))
          /\ toolCalls' = toolCalls \o chunk.functionCalls
    /\ nFrags' = nFrags + 1
    /\ UNCHANGED <<pc, inputs, thrown, currentMessage, turns, rounds, streamsOpen, inFlight,
                   returned, raised, attempts, streamsOpened, scans, malformedLog>>
    /\ RetryUnchanged /\ NoFailure

\* the narration texts whose forwarding is followed across attempts
Traced == {F_hi}

\* the traced narration among the onChunk arguments of one step of the chunk
\* loop (line 347), none as the empty text
TracedNarration(chunks) ==
    LET texts == {chunks[i].text : i \in {j \in 1..Len(chunks) :
                      chunks[j].src = "stream" /\ chunks[j].text \in Traced}}
    IN  IF texts = {} THEN <<>> ELSE CHOOSE t \in texts : TRUE

\* a plausible slip: the turn moves on while its stream is still open
StreamLeftOpen(open) == open

\* line 331: the for-await returns or throws only when the stream has ended
StreamConsumed(open) == open - 1

\* line 331: the stream fails while it is consumed
StreamFails ==
    /\ pc = "streaming"
    /\ \E error \in RawErrors : thrown' = error /\ Failure(error)
    /\ pc' = "caught"
    /\ streamsOpen' = StreamConsumed(streamsOpen)
    /\ LocalsReset
    /\ Silent
    /\ lost' = TracedNarration(emitted)
    /\ UNCHANGED <<inputs, inFlight, returned, raised, attempts, streamsOpened,
                   scans, malformedLog>>
    /\ RetryUnchanged

\* a plausible slip: the loop goes round whether or not a tool was called
ToolRoundAlways(calls) == TRUE

\* line 357: the turn asked for tools
ToolRound(calls) == Len(calls) > 0

\* lines 331 and 357: the stream ends; the turn goes to its tools or the
\* loop is left for the extraction
StreamEnd ==
    /\ pc = "streaming"
    /\ streamsOpen' = StreamConsumed(streamsOpen)
    /\ pc' = IF ToolRound(toolCalls) THEN "tools" ELSE "extract"
    /\ Silent
    /\ UNCHANGED <<inputs, thrown, inFlight, returned, raised, attempts,
                   streamsOpened, scans, malformedLog>>
    /\ LocalsUnchanged /\ RetryUnchanged /\ NoFailure

\* a plausible slip: the buffer is kept across the tool round
BufferForNextTurnKept(text) == text

\* line 359: finalJsonText = "" on a tool round
BufferForNextTurn(text) == <<>>

\* lines 358-392: the tools of the turn are executed and their responses
\* become the next turn's message
ExecTools ==
    /\ pc = "tools"
    /\ finalJsonText' = BufferForNextTurn(finalJsonText)
    /\ rounds' = Count(rounds)
    /\ Calls(ToolNarration(toolCalls), <<>>)
    /\ currentMessage' = [kind |-> "responses", responses |-> ToolResponses(toolCalls)]
    /\ pc' = "send"
    /\ UNCHANGED <<inputs, thrown, accumulatedText, toolCalls, nFrags, turns, streamsOpen,
                   inFlight, returned, raised, attempts, streamsOpened, scans, malformedLog>>
    /\ RetryUnchanged /\ NoFailure

\* lines 395-412: the payload is extracted and parses; the report is
\* returned through retryOperation to the caller
ExtractReturns ==
    /\ pc = "extract"
    /\ Extract(finalJsonText).ok
    /\ returned' = Extract(finalJsonText).report
    /\ pc' = "done"
    /\ inFlight' = inFlight - 1
    /\ Silent
    /\ UNCHANGED <<inputs, thrown, streamsOpen, raised, attempts, streamsOpened, scans,
                   malformedLog>>
    /\ LocalsUnchanged /\ RetryUnchanged /\ NoFailure

\* lines 395 and 413-416: there is no text, or the payload does not parse
\* (the text is then reported by console.error); a GeminiError is thrown to
\* the catch of line 418
ExtractThrows ==
    /\ pc = "extract"
    /\ ~Extract(finalJsonText).ok
    /\ thrown' = Extract(finalJsonText).error
    /\ Failure(Extract(finalJsonText).error)
    /\ malformedLog' = IF finalJsonText # <<>>
                       THEN Append(malformedLog, PayloadText(finalJsonText))
                       ELSE malformedLog
    /\ pc' = "caught"
    /\ LocalsReset
    /\ Silent
    /\ UNCHANGED <<inputs, streamsOpen, inFlight, returned, raised, attempts, streamsOpened,
                   scans, lost>>
    /\ RetryUnchanged

\* lines 418-448: the catch wrapper rethrows; the operation has settled
WrapperCatch ==
    /\ pc = "caught"
    /\ thrown' = WrapError(thrown)
    /\ pc' = "retry_catch"
    /\ inFlight' = inFlight - 1
    /\ Silent
    /\ UNCHANGED <<inputs, streamsOpen, returned, raised, attempts, streamsOpened,
                   scans, malformedLog>>
    /\ LocalsUnchanged /\ RetryUnchanged /\ NoFailure

(***************************************************************************)
(* retryOperation's catch (geminiService.ts 27-38).                        *)
(***************************************************************************)
\* lines 27-37: the failure is classified; the backoff starts or the error
\* is thrown to the caller
RetryCatch ==
    /\ pc = "retry_catch"
    /\ IF ShouldRetry(thrown, retries)
       THEN pc' = "sleeping" /\ UNCHANGED raised
       ELSE pc' = "failed" /\ raised' = thrown
    /\ Silent
    /\ UNCHANGED <<inputs, thrown, streamsOpen, inFlight, returned, attempts,
                   streamsOpened, scans, malformedLog>>
    /\ LocalsUnchanged /\ RetryUnchanged /\ NoFailure

\* a plausible slip: the backoff does not grow
NextDelayConstant(d) == d

\* line 35: delay * 2
NextDelay(d) == d * 2

\* lines 34-35: the backoff has elapsed; retryOperation calls itself
RetrySleep ==
    /\ pc = "sleeping"
    /\ sleeps' = Append(sleeps, delay)
    /\ retries' = retries - 1
    /\ delay' = NextDelay(delay)
    /\ pc' = "attempt"
    /\ Silent
    /\ UNCHANGED <<inputs, thrown, streamsOpen, inFlight, returned, raised,
                   attempts, streamsOpened, scans, malformedLog>>
    /\ LocalsUnchanged /\ NoFailure

Next ==
    \/ Call
    \/ Attempt
    \/ SendOk
    \/ SendFails
    \/ StreamChunk
    \/ StreamFails
    \/ StreamEnd
    \/ ExecTools
    \/ ExtractReturns
    \/ ExtractThrows
    \/ WrapperCatch
    \/ RetryCatch
    \/ RetrySleep

Spec == Init /\ [][Next]_vars

\* the steps that wait: for the caller, the backend or the timer
Awaited ==
    \/ Call
    \/ Attempt
    \/ SendOk
    \/ SendFails
    \/ StreamEnd
    \/ StreamChunk
    \/ StreamFails
    \/ RetrySleep

\* where control stands inside synchronous code: the tool loop's body, the
\* extraction, the catch wrapper, retryOperation's catch
SynchronousPcs == {"tools", "extract", "caught", "retry_catch"}

\* The event loop resumes every continuation that waits, the backend answers
\* every request and ends every stream, the timer fires; synchronous code
\* runs to completion.
FairSpec == Spec /\ WF_vars(Awaited) /\ []<>(pc \notin SynchronousPcs)

Terminated == pc \in {"done", "failed"}

(***************************************************************************)
(* retryOperation on its own: any budget, any operation.  The operation    *)
(* either returns or throws any error object, a GeminiError included.      *)
(***************************************************************************)
\* the delays retryOperation is first called with
InitialDelays == {DefaultDelay, 300}

ThrownErrors ==
    RawErrors \cup {GeminiError(MalformedMessage, FALSE), GeminiError(QuotaMessage, TRUE)}

RetryInit ==
    /\ pc = "attempt"
    /\ operation = "abstract"
    /\ apiKey = TRUE
    /\ retries \in 0..MaxRetries
    /\ delay \in InitialDelays
    /\ initial = [retries |-> retries, delay |-> delay]
    /\ txt = <<>> /\ fn = "none" /\ out = <<>>
    /\ embedding = NoEmbedding
    /\ StartState

\* line 26: the operation resolves and retryOperation returns its value
OperationReturns ==
    /\ pc = "running"
    /\ returned' = JNum(attempts)
    /\ pc' = "done"
    /\ inFlight' = inFlight - 1
    /\ Silent
    /\ UNCHANGED <<inputs, thrown, streamsOpen, raised, attempts, streamsOpened, scans, malformedLog>>
    /\ LocalsUnchanged /\ RetryUnchanged /\ NoFailure

\* lines 26-27: the operation rejects and retryOperation catches the error
OperationThrows ==
    /\ pc = "running"
    /\ \E error \in ThrownErrors : thrown' = error /\ Failure(error)
    /\ pc' = "retry_catch"
    /\ inFlight' = inFlight - 1
    /\ Silent
    /\ UNCHANGED <<inputs, streamsOpen, returned, raised, attempts, streamsOpened, scans,
                   malformedLog, lost>>
    /\ LocalsUnchanged /\ RetryUnchanged

RetryNext ==
    \/ Attempt
    \/ OperationReturns
    \/ OperationThrows
    \/ RetryCatch
    \/ RetrySleep

RetrySpec == RetryInit /\ [][RetryNext]_vars

(***************************************************************************)
(* The text functions on their own, over texts put together from pieces    *)
(* of markers and narration.                                               *)
(***************************************************************************)
\* most pieces one text is made of
MaxPieces == 5

P_openHead == <<"[", "[", "P", "H", "A">>

P_openTail == <<"S", "E", ":">>

Pieces == {TagOpen, TagClose, P_openHead, P_openTail, <<"x">>, <<"\n">>}

RECURSIVE TextsOf(_)
\* the texts of at most n pieces
TextsOf(n) ==
    IF n = 0 THEN {<<>>}
    ELSE LET shorter == TextsOf(n - 1)
         IN  shorter \cup {t \o p : t \in shorter, p \in Pieces}

TextInit ==
    /\ pc = "text"
    /\ operation = "text"
    /\ apiKey = TRUE
    /\ retries = DefaultRetries
    /\ delay = DefaultDelay
    /\ initial = [retries |-> DefaultRetries, delay |-> DefaultDelay]
    /\ txt \in TextsOf(MaxPieces)
    /\ fn = "none"
    /\ out = <<>>
    /\ embedding = NoEmbedding
    /\ StartState

TextFrame ==
    UNCHANGED << pc, operation, apiKey, retries, delay, thrown, currentMessage, finalJsonText,
                 accumulatedText, toolCalls, nFrags, turns, rounds, streamsOpen, inFlight,
                 returned, raised, attempts, sleeps, cause, firstCause, lost, emitted, phases, nChunkCalls,
                 nPhaseCalls, streamsOpened, scans, malformedLog, initial, txt, embedding,
                    scanner, scanned, gate, chat, app, demo >>

\* line 345 applied to the text
ApplyCleanChunk ==
    /\ pc = "text" /\ fn = "none"
    /\ fn' = "cleanChunk"
    /\ out' = CleanChunk(txt)
    /\ TextFrame

\* line 399 applied to the text
ApplyCleanText ==
    /\ pc = "text" /\ fn = "none"
    /\ fn' = "cleanText"
    /\ out' = CleanText(txt)
    /\ TextFrame

TextNext ==
    \/ ApplyCleanChunk
    \/ ApplyCleanText

TextSpec == TextInit /\ [][TextNext]_vars

(***************************************************************************)
(* Properties.                                                             *)
(***************************************************************************)
MalformedError == GeminiError(MalformedMessage, FALSE)

NoOutputError == GeminiError(NoOutputMessage, TRUE)

QuotaError == GeminiError(QuotaMessage, TRUE)

MissingKeyError == GeminiError(MissingKeyMessage, FALSE)

\* a failure of the transport that states a rate limit: status or code 429,
\* or one of the texts "429", "quota", "RESOURCE_EXHAUSTED"
RateLimitFailure(e) ==
    /\ e.cls = "Error"
    /\ \/ e.status = 429
       \/ e.code = 429
       \/ Includes(e.message, T_429)
       \/ Includes(e.message, T_quota)
       \/ Includes(e.message, T_RESOURCE_EXHAUSTED)

\* a transient failure of the transport: a rate limit, status 503, or a
\* network fetch fault
TransientFailure(e) ==
    \/ RateLimitFailure(e)
    \/ e.cls = "Error" /\ e.status = 503
    \/ e.cls = "Error" /\ Includes(e.message, T_fetch)

\* C1: with the default retry settings, a session whose first attempt failed
\* with a transient failure (rate limit, status 503, network fetch fault) has
\* attempted the operation exactly twice when it ends, the second attempt
\* after a backoff sleep of at least 2000 ms.
C1_TransientRetriedOnce ==
    (Terminated /\ TransientFailure(firstCause)) =>
        /\ attempts = 2
        /\ Len(sleeps) = 1
        /\ sleeps[1] >= DefaultDelay

RECURSIVE Pow2(_)
Pow2(k) == IF k = 0 THEN 1 ELSE 2 * Pow2(k - 1)

\* C2: for every retry budget n and every sequence of failures,
\* retryOperation runs the operation at most n+1 times, one attempt at a
\* time, attempt k+1 only after attempt k failed and a sleep of
\* initialDelay * 2^(k-1); the remaining-retries counter goes down by one per
\* retry; and the error raised in the end is the last attempt's error.
C2_RetryBudget ==
    /\ attempts <= initial.retries + 1
    /\ inFlight <= 1
    /\ inFlight = 1 <=> pc = "running"
    /\ attempts = (IF pc = "attempt" THEN Len(sleeps) ELSE Len(sleeps) + 1)
    /\ \A k \in 1..Len(sleeps) : sleeps[k] = initial.delay * Pow2(k - 1)
    /\ retries = initial.retries - Len(sleeps)
    /\ delay = initial.delay * Pow2(Len(sleeps))
    /\ pc = "sleeping" => cause # NoError /\ thrown = cause
    /\ pc = "failed" => raised = cause /\ raised # NoError

\* C2 witness: a budget of two retries is used up by retryable failures and
\* the third attempt's error is raised
C2_Witness ==
    /\ pc = "failed"
    /\ initial.retries = 2
    /\ attempts = 3
    /\ sleeps = <<initial.delay, 2 * initial.delay>>
    /\ raised = cause

\* C3: when the terminal buffer does not parse as a report, the attempt
\* fails with the malformed-output error carrying isRetryable = false, that
\* GeminiError is what the caller receives, and the failure is not retried:
\* no further attempt follows, so a first attempt that fails so is the only
\* attempt.
C3_MalformedNotRetried ==
    /\ [][ (pc = "extract" /\ finalJsonText # <<>>
              /\ ~JsonParse(PayloadText(finalJsonText)).ok)
           => (pc' = "caught" /\ thrown' = MalformedError /\ cause' = MalformedError) ]_vars
    /\ [](cause = MalformedError =>
            /\ pc \in {"caught", "retry_catch", "failed"}
            /\ thrown = MalformedError
            /\ pc = "failed" => raised = MalformedError /\ ~raised.isRetryable
            /\ firstCause = MalformedError => attempts = 1)
    /\ [](pc = "failed" => raised.cls = "GeminiError")

\* C3 witness: the unbalanced text {"a":1 was the terminal buffer of the first
\* attempt and the session has failed
C3_Witness ==
    /\ pc = "failed"
    /\ malformedLog = <<F_bad>>
    /\ raised = MalformedError
    /\ attempts = 1

\* C4: when the buffer is empty once its control markers are stripped, the
\* extraction fails with the no-output error (retryable), not with the
\* malformed-output error.
C4_EmptyAfterStripIsNoOutput ==
    [][ (pc = "extract" /\ CleanText(finalJsonText) = <<>>)
        => (thrown' = NoOutputError) ]_vars

\* the backend asked for at least one tool in the turn that just ended
ToolsRequested == pc = "tools" /\ toolCalls # <<>>

\* never both outcomes, and a session that has ended has exactly one
OneOutcome ==
    /\ ~(returned # Undefined /\ raised # NoError)
    /\ pc = "done" => returned # Undefined /\ raised = NoError
    /\ pc = "failed" => raised # NoError /\ returned = Undefined
    /\ ~Terminated => returned = Undefined /\ raised = NoError

\* C5 as stated: whatever the backend emits, the session eventually ends, in
\* exactly one outcome.
C5_AlwaysTerminates == []OneOutcome /\ <>Terminated

\* C5 amended: a session never has both outcomes, one that has ended has
\* exactly one, and the session ends unless the backend goes on asking for
\* tools turn after turn (every stream being finite).
C5_TerminatesUnlessToolsForever ==
    /\ []OneOutcome
    /\ ([]<>ToolsRequested \/ <>Terminated)

\* C5 witness: a session that went through a tool round has returned its
\* report
C5_Witness ==
    /\ pc = "done"
    /\ returned # Undefined
    /\ currentMessage.kind = "responses"
    /\ streamsOpened = 2

\* the failure whose message is the text {"error":{"code":429,"message":"quota"}}
NestedQuotaFailure == RawError(0, 0, NestedBody(429, T_quota))

\* C6 as stated: the failure with the nested quota body is surfaced as a
\* retryable error that carries the unwrapped message "quota".
C6_SurfacesUnwrappedMessage ==
    (pc = "failed" /\ cause = NestedQuotaFailure) =>
        /\ raised.isRetryable
        /\ raised.message = T_quota

\* C6 amended: the failure with the nested quota body is surfaced as the
\* retryable quota error, whose message is the fixed quota text; the
\* unwrapped message and code only decide the classification.
C6_SurfacesQuotaError ==
    /\ (pc \in {"retry_catch", "sleeping", "failed"} /\ cause = NestedQuotaFailure)
          => thrown = QuotaError
    /\ (pc = "failed" /\ cause = NestedQuotaFailure)
          => /\ Unwrapped(cause) = [msg |-> JStr(T_quota), status |-> 429]
             /\ raised = QuotaError
             /\ raised.isRetryable
             /\ raised.message # T_quota

\* C6 witness: the session has failed on the nested quota body
C6_Witness ==
    /\ pc = "failed"
    /\ cause = NestedQuotaFailure
    /\ raised = QuotaError

\* C7: the error raised to the caller is the quota error (retryable) exactly
\* when the failure behind it is a rate-limit failure of the transport; a
\* generic backend error, a malformed output and a missing output never
\* surface as the quota error.
C7_QuotaIffRateLimit ==
    pc = "failed" =>
        /\ RateLimitFailure(cause) => raised = QuotaError /\ raised.isRetryable
        /\ raised = QuotaError => RateLimitFailure(cause)
        /\ cause \in {MalformedError, NoOutputError} => raised = cause

\* C7 witness: both kinds of failure have surfaced, each under its own
\* classification
C7_Witness ==
    /\ pc = "failed"
    /\ firstCause = RawError(0, 0, M_fetch)
    /\ cause = RawError(429, 0, M_boom)
    /\ raised = QuotaError

\* C8: without a credential the call fails at once with the non-retryable
\* missing-key error: no scan, no onChunk or onPhaseChange call, no request,
\* no attempt and no retry.
C8_MissingKeyFailsFast ==
    ~apiKey =>
        /\ pc \in {"idle", "failed"}
        /\ scans = 0
        /\ nChunkCalls = 0 /\ emitted = <<>>
        /\ nPhaseCalls = 0 /\ phases = <<>>
        /\ streamsOpened = 0 /\ streamsOpen = 0
        /\ attempts = 0 /\ inFlight = 0
        /\ sleeps = <<>>
        /\ returned = Undefined
        /\ pc = "failed" => raised = MissingKeyError /\ ~raised.isRetryable

\* C8 witness: a call without a credential has failed
C8_Witness == ~apiKey /\ pc = "failed" /\ raised = MissingKeyError

\* C9: no text passed to onChunk from a streamed fragment contains the
\* literal text "[[PHASE:".
C9_NoMarkerInNarration ==
    \A i \in 1..Len(emitted) :
        emitted[i].src = "stream" => ~Includes(emitted[i].text, TagOpen)

RECURSIVE IsSubsequence(_, _)
\* the characters of a are characters of b, in b's order
IsSubsequence(a, b) ==
    IF a = <<>> THEN TRUE
    ELSE IF b = <<>> THEN FALSE
    ELSE IF Head(a) = Head(b) THEN IsSubsequence(Tail(a), Tail(b))
    ELSE IsSubsequence(a, Tail(b))

\* C10: stripping is idempotent and order-preserving: stripping the stripped
\* text returns it unchanged, and the characters kept are in their original
\* order.
C10_StripIdempotent ==
    /\ fn = "cleanChunk" => CleanChunk(out) = out /\ IsSubsequence(out, txt)
    /\ fn = "cleanText" => CleanText(out) = out /\ IsSubsequence(out, txt)

(***************************************************************************)
(* One fragment on its own: what the chunk loop does with a fragment's     *)
(* text (lines 332-348) and what the extraction's stripping does with it   *)
(* (line 399), over texts made of whole markers and plain characters.      *)
(***************************************************************************)
\* most pieces a fragment text is made of
MaxMarkers == 3

K_A == <<"[", "[", "P", "H", "A", "S", "E", ":", " ", "A", "]", "]">>

K_B == <<"[", "[", "P", "H", "A", "S", "E", ":", "B", " ", "]", "]">>

K_lower == <<"[", "[", "p", "h", "a", "s", "e", ":", " ", " ", " ", "s", "e", "a", "r", "c", "h", " ", "]", "]">>

MarkerPieces == {K_A, K_B, K_lower, P_openHead, <<"x">>}

RECURSIVE MarkerTextsOf(_)
\* the texts of at most n pieces
MarkerTextsOf(n) ==
    IF n = 0 THEN {<<>>}
    ELSE LET shorter == MarkerTextsOf(n - 1)
         IN  shorter \cup {t \o p : t \in shorter, p \in MarkerPieces}

MarkerInit ==
    /\ pc = "text"
    /\ operation = "text"
    /\ apiKey = TRUE
    /\ retries = DefaultRetries
    /\ delay = DefaultDelay
    /\ initial = [retries |-> DefaultRetries, delay |-> DefaultDelay]
    /\ txt \in MarkerTextsOf(MaxMarkers)
    /\ fn = "none"
    /\ out = <<>>
    /\ embedding = NoEmbedding
    /\ StartState

\* lines 332-348 applied to the text: the fragment joins the buffers and
\* the callbacks are called
ApplyFragment ==
    /\ pc = "text" /\ fn = "none"
    /\ fn' = "fragment"
    /\ accumulatedText' = accumulatedText \o txt
    /\ finalJsonText' = finalJsonText \o txt
    /\ Calls(ChunkNarration(txt), ChunkPhases(txt))
    /\ out' = CleanChunk(txt)
    /\ UNCHANGED << pc, operation, apiKey, retries, delay, thrown, currentMessage,
                    toolCalls, nFrags, turns, rounds, streamsOpen, inFlight, returned, raised,
                    attempts, sleeps, cause, firstCause, lost, streamsOpened, scans,
                    malformedLog, initial, txt, embedding,
                    scanner, scanned, gate, chat, app, demo >>

MarkerNext ==
    \/ ApplyFragment
    \/ ApplyCleanText

MarkerSpec == MarkerInit /\ [][MarkerNext]_vars

RECURSIVE MarkerNamesFrom(_, _)
\* the trimmed names of the marker occurrences of s from position i on, left
\* to right, each search resuming after the previous occurrence
MarkerNamesFrom(s, i) ==
    IF i > Len(s) THEN <<>>
    ELSE LET m == PhaseCaptureAt(s, i)
         IN  IF m.found
             THEN <<Trim(m.name)>> \o MarkerNamesFrom(s, IndexOf(s, TagClose, i) + Len(TagClose))
             ELSE MarkerNamesFrom(s, i + 1)

\* C11: for a fragment, onPhaseChange is called once for each marker
\* occurrence in it, in order, with the marker's trimmed name: k markers
\* make k calls.
C11_OneCallPerMarker ==
    fn = "fragment" => phases = MarkerNamesFrom(txt, 1)

\* the upper-case form of a letter of the keyword
UpperOf(c) ==
    CASE c = "p" -> "P"
      [] c = "h" -> "H"
      [] c = "a" -> "A"
      [] c = "s" -> "S"
      [] c = "e" -> "E"
      [] OTHER   -> c

\* "[[", the keyword in any letter case, and ":" stand at position i of s
KeywordAt(s, i) ==
    /\ i >= 1 /\ i + Len(TagOpen) - 1 <= Len(s)
    /\ \A k \in 1..Len(TagOpen) : UpperOf(s[i + k - 1]) = TagOpen[k]

\* s with the keyword of every marker opening written in upper case
FoldKeyword(s) ==
    [i \in 1..Len(s) |->
        IF \E j \in (i - Len(TagOpen) + 1)..i : KeywordAt(s, j)
        THEN UpperOf(s[i]) ELSE s[i]]

\* C12: a marker is recognized whatever the letter case of its keyword and
\* whatever white space it holds: the fragment triggers the control event,
\* and loses its markers in the narration and in the text for extraction,
\* as it does with the keyword written PHASE.
C12_MarkerAnyCase ==
    /\ fn = "fragment" =>
          /\ phases = ChunkPhases(FoldKeyword(txt))
          /\ out = CleanChunk(FoldKeyword(txt))
          /\ emitted = ChunkNarration(FoldKeyword(txt))
    /\ fn = "cleanText" => out = CleanText(FoldKeyword(txt))

\* C13: the text the payload is extracted from is the text streamed in the
\* last turn, the one without tool calls: a tool round empties the buffer,
\* so no text of a turn that asked for a tool reaches the extraction; and an
\* attempt that ran r tool rounds opened r + 1 streams, one tool round making
\* two streaming phases.
C13_PayloadFromLastTurn ==
    /\ pc = "extract" => finalJsonText = accumulatedText
    /\ pc = "send" /\ rounds > 0 => finalJsonText = <<>>
    /\ pc \in {"extract", "done"} =>
          /\ rounds < MaxCount => turns = rounds + 1
          /\ rounds = 1 => turns = 2
    /\ pc = "done" => returned = Extract(accumulatedText).report

\* C13 witness: after one tool round the report streamed in the second turn
\* has been returned
C13_Witness ==
    /\ pc = "done"
    /\ rounds = 1 /\ turns = 2
    /\ currentMessage.kind = "responses" /\ currentMessage.responses # <<>>
    /\ accumulatedText = F_json
    /\ returned = JsonParse(F_json).val

\* the calls of the turn that name the registered tool
Registered(calls) == {i \in 1..Len(calls) : calls[i].name = CarbonToolName}

\* C14: a tool call whose name is not the registered one is a no-op: the
\* tool step builds results and narration for the registered calls only,
\* raises nothing, and the session goes on to its next turn.
C14_UnknownToolIsNoOp ==
    [][ pc = "tools" =>
          /\ pc' = "send"
          /\ UNCHANGED <<thrown, raised, cause, returned>>
          /\ Len(currentMessage'.responses) = Cardinality(Registered(toolCalls))
          /\ \A i \in 1..Len(currentMessage'.responses) :
                currentMessage'.responses[i].name = CarbonToolName
          /\ Len(emitted') = Cardinality(Registered(toolCalls)) ]_vars

\* C14 witness: the only tool round of the attempt answered no call, and the
\* session has returned its report
C14_Witness ==
    /\ pc = "done"
    /\ rounds = 1
    /\ currentMessage = [kind |-> "responses", responses |-> <<>>]
    /\ returned # Undefined

(***************************************************************************)
(* The extraction on its own (geminiService.ts 395-416), over buffers made *)
(* of a prefix, a payload that is a valid JSON object, and a suffix, the   *)
(* prefix and the suffix without braces.                                   *)
(***************************************************************************)
J_empty == <<"{", "}">>

J_nested == <<"{", "\"", "a", "\"", ":", "{", "\"", "b", "\"", ":", "2", "}", "}">>

J_tagged == <<"{", "\"", "a", "\"", ":", "\"", "[", "[", "P", "H", "A", "S", "E", ":", " ", "x", "]", "]", "\"", "}">>

Prefixes == {<<>>, <<"H", "i", " ">>, F_tag, F_tagHead, <<"\n">>}

Payloads == {F_json, J_empty, J_nested, J_tagged}

Suffixes == {<<>>, <<" ", "o", "k">>, F_tag, TagClose, <<"\n">>}

ExtractInit ==
    /\ pc = "text"
    /\ operation = "text"
    /\ apiKey = TRUE
    /\ retries = DefaultRetries
    /\ delay = DefaultDelay
    /\ initial = [retries |-> DefaultRetries, delay |-> DefaultDelay]
    /\ embedding \in [prefix : Prefixes, payload : Payloads, suffix : Suffixes]
    /\ txt = embedding.prefix \o embedding.payload \o embedding.suffix
    /\ fn = "none"
    /\ out = <<>>
    /\ StartState

\* lines 395-416 applied to the text as finalJsonText: the report is returned
\* or the GeminiError thrown
ApplyExtract ==
    /\ pc = "text" /\ fn = "none"
    /\ fn' = "extract"
    /\ finalJsonText' = txt
    /\ out' = PayloadText(txt)
    /\ returned' = Extract(txt).report
    /\ thrown' = Extract(txt).error
    /\ malformedLog' = IF txt # <<>> /\ ~Extract(txt).ok
                       THEN Append(malformedLog, PayloadText(txt)) ELSE malformedLog
    /\ UNCHANGED << pc, operation, apiKey, retries, delay, currentMessage, accumulatedText,
                    toolCalls, nFrags, turns, rounds, streamsOpen, inFlight, raised,
                    attempts, sleeps, cause, firstCause, lost, emitted, phases, nChunkCalls,
                    nPhaseCalls, streamsOpened, scans, initial, txt, embedding,
                    scanner, scanned, gate, chat, app, demo >>

ExtractSpec == ExtractInit /\ [][ApplyExtract]_vars

\* the buffer is the embedding of a valid payload and has been extracted from
Embedded ==
    /\ fn = "extract"
    /\ JsonParse(embedding.payload).ok

\* C15 as stated: from prefix + payload + suffix the extraction recovers the
\* payload unchanged and parses it.
C15_ExtractRecoversPayload ==
    Embedded =>
        /\ out = embedding.payload
        /\ thrown = NoError
        /\ returned = JsonParse(embedding.payload).val

RECURSIVE MarkedFrom(_, _)
\* the positions of s, from i on, that lie inside a control marker as the
\* stripping of line 399 finds them
MarkedFrom(s, i) ==
    IF i > Len(s) THEN {}
    ELSE LET e == TagEnd(s, i, TRUE)
         IN  IF e # 0 THEN (i..e) \cup MarkedFrom(s, e + 1) ELSE MarkedFrom(s, i + 1)

\* no control marker of the buffer touches the payload
PayloadUnmarked ==
    MarkedFrom(txt, 1) \cap
        ((Len(embedding.prefix) + 1)..(Len(embedding.prefix) + Len(embedding.payload))) = {}

\* C15 amended: the extraction recovers the payload unchanged and parses it
\* when no control marker of the buffer touches the payload; markers that
\* lie within the prefix or within the suffix do no harm.
C15_ExtractRecoversUnmarkedPayload ==
    (Embedded /\ PayloadUnmarked) =>
        /\ out = embedding.payload
        /\ thrown = NoError
        /\ returned = JsonParse(embedding.payload).val

\* C15 witness: a nested payload between two markers has been recovered
C15_Witness ==
    /\ Embedded /\ PayloadUnmarked
    /\ embedding = [prefix |-> F_tag, payload |-> J_nested, suffix |-> F_tag]
    /\ out = J_nested
    /\ returned = JsonParse(J_nested).val

\* the fields of AnalysisResult that are declared number
NumericFields ==
    { <<"o", "r", "i", "g", "i", "n", "a", "l", "E", "n", "e", "r", "g", "y", "J", "o", "u", "l", "e", "s">>,
      <<"o", "p", "t", "i", "m", "i", "z", "e", "d", "E", "n", "e", "r", "g", "y", "J", "o", "u", "l", "e", "s">>,
      <<"i", "m", "p", "r", "o", "v", "e", "m", "e", "n", "t", "P", "e", "r", "c", "e", "n", "t", "a", "g", "e">>,
      <<"c", "a", "r", "b", "o", "n", "S", "a", "v", "e", "d", "G", "r", "a", "m", "s">>,
      <<"e", "s", "t", "i", "m", "a", "t", "e", "d", "H", "o", "u", "r", "l", "y", "C", "o", "s", "t">>,
      <<"c", "o", "s", "t", "S", "a", "v", "i", "n", "g", "s", "P", "e", "r", "1", "M", "I", "n", "f", "e", "r", "e", "n", "c", "e">>,
      <<"e", "n", "e", "r", "g", "y", "E", "r", "r", "o", "r", "M", "a", "r", "g", "i", "n">>,
      <<"c", "o", "s", "t", "E", "r", "r", "o", "r", "M", "a", "r", "g", "i", "n">>,
      <<"c", "o", "n", "f", "i", "d", "e", "n", "c", "e", "S", "c", "o", "r", "e">> }

\* C16: a session returns a report only if every numeric field of
\* AnalysisResult is present in it as a number; a parsed payload that lacks
\* one is not returned.
C16_ReportHasNumericFields ==
    pc = "done" =>
        /\ returned.t = "object"
        /\ \A field \in NumericFields : Member(returned, field).t = "number"

(***************************************************************************)
(* C17.  Across a retry, narration that the failed attempt already         *)
(* forwarded is not forwarded again: whenever a stream broke right after   *)
(* onChunk was handed a traced narration text, no later step of the call   *)
(* hands onChunk that text again.                                          *)
(***************************************************************************)
C17_NarrationNotReissued ==
    [][\A i \in 1..Len(emitted') :
          (lost # <<>> /\ emitted'[i].src = "stream") => emitted'[i].text # lost]_vars

(***************************************************************************)
(* C18.  At most one backend stream is outstanding: a stream is open       *)
(* exactly while its turn consumes it, so a turn's request is sent only    *)
(* when the previous stream has ended and the tool results of that turn    *)
(* are built, and an attempt starts only when no stream and no invocation  *)
(* of the operation is outstanding.                                        *)
(***************************************************************************)
C18_OneStreamOutstanding ==
    /\ streamsOpen \in {0, 1}
    /\ inFlight \in {0, 1}
    /\ streamsOpen = 1 <=> pc = "streaming"
    /\ (pc = "send" /\ rounds > 0) =>
          /\ currentMessage.kind = "responses"
          /\ currentMessage.responses = ToolResponses(toolCalls)
    /\ pc \in {"attempt", "sleeping", "retry_catch"} => inFlight = 0

\* the retried attempt consumes the stream of its second turn
C18_Witness ==
    /\ attempts = 2
    /\ rounds = 1
    /\ pc = "streaming"
    /\ streamsOpen = 1
    /\ nFrags > 0

(***************************************************************************)
(* C19.  Executing the carbon tool has no effect other than its result:    *)
(* the step that executes a turn's recognized tool calls hands nothing to  *)
(* onChunk or onPhaseChange and leaves the session's state alone, but for  *)
(* the tool results that become the next message (and the loop's own       *)
(* reset of the payload buffer and advance to the next turn).              *)
(***************************************************************************)
C19_ToolHasNoOtherEffect ==
    [][(pc = "tools" /\ Registered(toolCalls) # {}) =>
          /\ emitted' = <<>>
          /\ phases' = <<>>
          /\ UNCHANGED <<nChunkCalls, nPhaseCalls>>
          /\ UNCHANGED <<thrown, returned, raised, accumulatedText, toolCalls,
                         streamsOpen, inFlight, attempts, malformedLog>>]_vars

(***************************************************************************)
(* The carbon tool on its own (geminiService.ts 357-392): a turn's         *)
(* recognized tool requests, over the regions and energies a request may   *)
(* carry.                                                                  *)
(***************************************************************************)
MaxCalls == 2

\* requests for the registered tool: the five table keys, no region, a
\* region the table lacks, names an object inherits; no energy (0) or some
ToolRequests ==
    { ToolCall("c1", CarbonToolName, joules, region) :
        joules \in {0, 7200, 1800000, 3000000},
        region \in RegionKeys \cup {"", "mars-north1", "constructor", "toString"} }

ToolInit ==
    /\ pc = "text"
    /\ operation = "text"
    /\ apiKey = TRUE
    /\ retries = DefaultRetries
    /\ delay = DefaultDelay
    /\ initial = [retries |-> DefaultRetries, delay |-> DefaultDelay]
    /\ txt = <<>>
    /\ fn = "none"
    /\ out = <<>>
    /\ embedding = NoEmbedding
    /\ StartState

\* lines 357-392 applied to the tool requests of one turn
ApplyTools ==
    /\ pc = "text" /\ fn = "none"
    /\ fn' = "tools"
    /\ \E n \in 1..MaxCalls : \E calls \in [1..n -> ToolRequests] :
          /\ toolCalls' = calls
          /\ currentMessage' = [kind |-> "responses", responses |-> ToolResponses(calls)]
          /\ Calls(ToolNarration(calls), <<>>)
    /\ finalJsonText' = BufferForNextTurn(finalJsonText)
    /\ UNCHANGED << pc, operation, apiKey, retries, delay, thrown, accumulatedText,
                    nFrags, turns, rounds, streamsOpen, inFlight, returned, raised,
                    attempts, sleeps, cause, firstCause, lost, streamsOpened, scans,
                    malformedLog, initial, txt, out, embedding,
                    scanner, scanned, gate, chat, app, demo >>

ToolSpec == ToolInit /\ [][ApplyTools]_vars

\* the coefficient the contract names for a region
Coefficient(region) ==
    CASE region = "us-central1"  -> 360
      [] region = "asia-east1"   -> 620
      [] region = "europe-west4" -> 180
      [] region = "us-east1"     -> 480
      [] OTHER                   -> 450

\* C20: for every recognized tool request the coefficient is the table entry
\* of a known region and 450 for a missing region or any other key, and the
\* grams are energyJoules / 3600000 * coefficient, no energy counting as 0.
C20_CarbonConversion ==
    fn = "tools" =>
        \A i \in 1..Len(toolCalls) :
            LET call   == toolCalls[i]
                result == currentMessage.responses[i].result
            IN  /\ result.intensity = Coefficient(call.region)
                /\ result.gramsDen = 3600000
                /\ result.gramsNum = call.energyJoules * Coefficient(call.region)

(***************************************************************************)
(* analyzeCodeStatic as a state machine (staticAnalyzer.ts 32-154): calls  *)
(* on the text under study and on another text, one after the other, each  *)
(* call in three steps: the scan up to the verdict, the syntax check, the  *)
(* return.                                                                 *)
(***************************************************************************)
MaxLines == 2

MaxScans == 3

L_import ==
    <<"i", "m", "p", "o", "r", "t", " ", "t", "o", "r", "c", "h">>

L_convs ==
    <<"n", "n", ".", "C", "o", "n", "v", "2", "d", "(", "3", ",", "8", ",", "s", "t",
      "r", "i", "d", "e", "=", "2", ")", " ", "n", "n", ".", "C", "o", "n", "v", "2",
      "d", "(", "8", ",", "8", ",", "s", "t", "r", "i", "d", "e", "=", "2", ")">>

L_grouped ==
    <<"n", "n", ".", "C", "o", "n", "v", "2", "d", "(", "8", ",", "8", ",", "g", "r",
      "o", "u", "p", "s", "=", "1", "6", ")">>

L_linear ==
    <<"n", "n", ".", "L", "i", "n", "e", "a", "r", "(", "8", ",", "2", ")">>

L_bn ==
    <<"n", "n", ".", "B", "a", "t", "c", "h", "N", "o", "r", "m", "2", "d", "(", "8",
      ")">>

L_relu5 ==
    <<"n", "n", ".", "R", "e", "L", "U", "(", ")", "n", "n", ".", "R", "e", "L", "U",
      "(", ")", "n", "n", ".", "R", "e", "L", "U", "(", ")", "n", "n", ".", "R", "e",
      "L", "U", "(", ")", "n", "n", ".", "R", "e", "L", "U", "(", ")">>

L_relu6 ==
    <<"n", "n", ".", "R", "e", "L", "U", "(", ")", "n", "n", ".", "R", "e", "L", "U",
      "(", ")", "n", "n", ".", "R", "e", "L", "U", "(", ")", "n", "n", ".", "R", "e",
      "L", "U", "(", ")", "n", "n", ".", "R", "e", "L", "U", "(", ")", "n", "n", ".",
      "R", "e", "L", "U", "(">>

L_mha ==
    <<"n", "n", ".", "M", "u", "l", "t", "i", "h", "e", "a", "d", "A", "t", "t", "e",
      "n", "t", "i", "o", "n", "(", "8", ",", " ", "2", ")">>

L_class ==
    <<"c", "l", "a", "s", "s", " ", "N", "e", "t", "(", "n", "n", ".", "M", "o", "d",
      "u", "l", "e", ")", ":">>

L_args ==
    <<"d", "e", "f", " ", "f", "(", "*", "a", "r", "g", "s", ")", ":">>

L_res ==
    <<"o", "u", "t", " ", "+", "=", " ", "i", "d", "e", "n", "t", "i", "t", "y">>

L_open ==
    <<"x", " ", "=", " ", "f", "(">>

\* the lines source texts are made of: constructs with and without
\* arguments, a class definition, an abstraction marker, a residual
\* addition, an unclosed parenthesis
SourceLines ==
    { L_import, L_convs, L_grouped, L_linear, L_bn, L_relu5,
      L_relu6, L_mha, L_class, L_args, L_res, L_open }

RECURSIVE SourceTextsOf(_)
\* the texts of at most n lines
SourceTextsOf(n) ==
    IF n = 0 THEN {<<>>}
    ELSE SourceTextsOf(n - 1) \cup SourceLines
            \cup {t \o <<"\n">> \o l : t \in SourceTextsOf(n - 1) \ {<<>>}, l \in SourceLines}

\* the text the calls in between are made on
OtherCode == L_class

ScanInit ==
    /\ pc = "text"
    /\ operation = "scan"
    /\ apiKey = TRUE
    /\ retries = DefaultRetries
    /\ delay = DefaultDelay
    /\ initial = [retries |-> DefaultRetries, delay |-> DefaultDelay]
    /\ txt \in SourceTextsOf(MaxLines)
    /\ fn = "none"
    /\ out = <<>>
    /\ embedding = NoEmbedding
    /\ StartState

\* what no step of the scanner touches
ScanFrame ==
    UNCHANGED << pc, operation, apiKey, retries, delay, thrown, currentMessage,
                 finalJsonText, accumulatedText, toolCalls, nFrags, turns, rounds,
                 streamsOpen, inFlight, returned, raised, attempts, sleeps, cause,
                 firstCause, lost, emitted, phases, nChunkCalls, nPhaseCalls,
                 streamsOpened, malformedLog, initial, txt, embedding,
                 gate, chat, app, demo >>

\* lines 32-127: a call begins and scans its text up to the verdict
ScanStart ==
    /\ operation = "scan"
    /\ scanner.step = "idle"
    /\ scans < MaxScans
    /\ \E code \in {txt, OtherCode} : scanner' = ScanBody(scanner, code)
    /\ scans' = scans + 1
    /\ UNCHANGED <<fn, out, scanned>>
    /\ ScanFrame

\* lines 129-134: the syntax check
SyntaxCheck ==
    /\ operation = "scan"
    /\ scanner.step = "syntax"
    /\ scanner' = SyntaxChecked(scanner)
    /\ UNCHANGED <<fn, out, scanned, scans>>
    /\ ScanFrame

\* lines 136-153: the call returns its finding
ScanReturn ==
    /\ operation = "scan"
    /\ scanner.step = "return"
    /\ out' = Finding(scanner)
    /\ fn' = "scan"
    /\ scanned' = scanned \cup {<<scanner.code, Finding(scanner)>>}
    /\ scanner' = [scanner EXCEPT !.step = "idle"]
    /\ UNCHANGED scans
    /\ ScanFrame

ScanNext ==
    \/ ScanStart
    \/ SyntaxCheck
    \/ ScanReturn

ScanSpec == ScanInit /\ [][ScanNext]_vars

(***************************************************************************)
(* C21.  analyzeCodeStatic is total and deterministic: every call that     *)
(* has come to its end returned a finding with every field of              *)
(* StaticAnalysis, and the calls made on one text, whatever calls on the   *)
(* other text came between them, returned one and the same finding.        *)
(***************************************************************************)
C21_ScanTotalDeterministic ==
    /\ \A first \in scanned : \A second \in scanned :
          first[1] = second[1] => first[2] = second[2]
    /\ (scanner.step = "idle" /\ scans > 0) =>
          /\ <<scanner.code, out>> \in scanned
          /\ out.isValid \in BOOLEAN
          /\ out.requiresDynamicTracing \in BOOLEAN
          /\ out.complexityLevel \in {"Low", "Medium", "High"}
          /\ out.estimatedFlops \in Nat
          /\ DOMAIN out = {"isValid", "errors", "estimatedFlops", "layerCounts", "imports",
                           "structuralHighlights", "complexityLevel",
                           "requiresDynamicTracing", "abstractionWarnings"}

\* the text under study, with constructs and an error, was scanned twice and
\* the other text once
C21_Witness ==
    /\ scans = MaxScans
    /\ scanner.step = "idle"
    /\ txt # OtherCode
    /\ {pair[1] : pair \in scanned} = {txt, OtherCode}
    /\ \E pair \in scanned :
          /\ pair[1] = txt
          /\ pair[2].layerCounts # <<>>
          /\ pair[2].errors # <<>>

\* C22: for the empty source text the scanner returns no construct counts,
\* the tier Low and no errors, so that the finding is valid.
C22_EmptyTextClean ==
    \A pair \in scanned :
        pair[1] = <<>> =>
            /\ pair[2].layerCounts = <<>>
            /\ pair[2].complexityLevel = "Low"
            /\ pair[2].errors = <<>>
            /\ pair[2].isValid

\* the source lines that hold a construct the scanner counts
ConstructLines == {L_convs, L_grouped, L_linear, L_bn, L_relu5, L_relu6, L_mha}

\* the text holds a line with a construct
HasConstruct(code) == \E l \in ConstructLines : Includes(code, l)

\* C23: the low-confidence flag is set exactly when an abstraction check
\* fires or the text defines a class and no construct was matched, and
\* whenever it is set the tier is High, whatever the counts.
C23_LowConfidenceIffAbstracted ==
    \A pair \in scanned :
        LET code    == pair[1]
            finding == pair[2]
        IN  /\ finding.requiresDynamicTracing <=>
                  \/ Includes(code, L_args)
                  \/ Includes(code, L_class) /\ ~HasConstruct(code)
            /\ finding.requiresDynamicTracing <=>
                  \/ finding.abstractionWarnings # <<>>
                  \/ Includes(code, L_class) /\ finding.layerCounts = <<>>
            /\ finding.requiresDynamicTracing => finding.complexityLevel = "High"

\* a class without constructs, and an abstraction marker beside constructs
C23_Witness ==
    /\ \E pair \in scanned :
          /\ pair[1] = L_class
          /\ pair[2].abstractionWarnings = <<>>
          /\ pair[2].complexityLevel = "High"
    /\ \E pair \in scanned :
          /\ Includes(pair[1], L_args)
          /\ pair[2].layerCounts # <<>>
          /\ pair[2].complexityLevel = "High"

RECURSIVE SplitLines(_)
\* the lines of a text
SplitLines(code) ==
    LET n == IndexOf(code, <<"\n">>, 1)
    IN  IF n = 0 THEN <<code>>
        ELSE <<SubSeq(code, 1, n - 1)>> \o SplitLines(SubSeq(code, n + 1, Len(code)))

\* the constructs a source line holds
ConstructsOn(line) ==
    CASE line = L_convs -> 2
      [] line = L_relu5 -> 5
      [] line = L_relu6 -> 6
      [] line \in {L_grouped, L_linear, L_bn, L_mha} -> 1
      [] OTHER -> 0

RECURSIVE ConstructsIn(_)
\* the constructs the lines hold together
ConstructsIn(lines) ==
    IF lines = <<>> THEN 0 ELSE ConstructsOn(Head(lines)) + ConstructsIn(Tail(lines))

\* C24: the tier is High for a low-confidence finding, otherwise Medium when
\* the text holds more than 10 constructs and Low when it holds 10 or fewer,
\* whether or not the text passes the syntax and import checks.
C24_TierFromFlagAndCount ==
    \A pair \in scanned :
        LET total   == ConstructsIn(SplitLines(pair[1]))
            finding == pair[2]
        IN  /\ SumCounts(finding.layerCounts) = total
            /\ finding.complexityLevel =
                  IF finding.requiresDynamicTracing THEN "High"
                  ELSE IF total > 10 THEN "Medium"
                  ELSE "Low"

\* eleven constructs in a text with an unclosed parenthesis
C24_Witness ==
    \E pair \in scanned :
        /\ pair[1] = L_relu5 \o <<"\n">> \o L_relu6
        /\ \E k \in 1..Len(pair[2].errors) : pair[2].errors[k].kind = "Syntax Error"
        /\ pair[2].complexityLevel = "Medium"

\* the occurrences of a character in a text
Occurrences(code, char) == Cardinality({k \in 1..Len(code) : code[k] = char})

\* C25: when the text holds different numbers of opening and closing
\* parentheses the finding is not valid and records a syntax error with the
\* two numbers, and the scan is carried through all the same: the syntax
\* check leaves the counts, the cost, the highlights, the warnings and the
\* tier as the scan computed them, and the finding returns them.
C25_SyntaxErrorKeepsScan ==
    [][/\ scanner.step = "syntax" =>
             /\ scanner'.step = "return"
             /\ scanner'.layerCounts = scanner.layerCounts
             /\ scanner'.currentFlops = scanner.currentFlops
             /\ scanner'.highlightsMap = scanner.highlightsMap
             /\ scanner'.abstractionWarnings = scanner.abstractionWarnings
             /\ scanner'.complexityLevel = scanner.complexityLevel
             /\ scanner'.requiresDynamicTracing = scanner.requiresDynamicTracing
       /\ scanner.step = "return" =>
             /\ out'.layerCounts = scanner.layerCounts
             /\ out'.estimatedFlops = scanner.currentFlops
             /\ out'.complexityLevel = scanner.complexityLevel
             /\ out'.abstractionWarnings = scanner.abstractionWarnings
             /\ Len(out'.structuralHighlights) = Len(scanner.highlightsMap)
             /\ \A k \in 1..Len(scanner.highlightsMap) :
                   /\ out'.structuralHighlights[k].label = scanner.highlightsMap[k].label
                   /\ {out'.structuralHighlights[k].lineNumbers[n] :
                          n \in 1..Len(out'.structuralHighlights[k].lineNumbers)}
                        = scanner.highlightsMap[k].lines
             /\ Occurrences(scanner.code, "(") # Occurrences(scanner.code, ")") =>
                   /\ ~out'.isValid
                   /\ \E k \in 1..Len(out'.errors) :
                         out'.errors[k] = [kind |-> "Syntax Error",
                                           open |-> Occurrences(scanner.code, "("),
                                           close |-> Occurrences(scanner.code, ")")]]_vars

\* two convolutions above an unclosed parenthesis: counted, annotated and
\* reported with the syntax error
C25_Witness ==
    /\ fn = "scan"
    /\ txt = L_convs \o <<"\n">> \o L_open
    /\ scanner.step = "idle" /\ scanner.code = txt
    /\ ~out.isValid
    /\ out.errors[Len(out.errors)] = [kind |-> "Syntax Error", open |-> 3, close |-> 2]
    /\ out.layerCounts = <<[name |-> "Conv2d", count |-> 2]>>
    /\ out.structuralHighlights # <<>>

\* the constructs of the contract, with their weights in thousandths
Weights ==
    [Conv2d |-> 500, Linear |-> 100, BatchNorm |-> 10, ReLU |-> 0,
     MultiheadAttention |-> 800]

\* the occurrences of a named construct on a source line
NamedOn(line, name) ==
    CASE line \in {L_convs, L_grouped} -> IF name = "Conv2d" THEN ConstructsOn(line) ELSE 0
      [] line = L_linear -> IF name = "Linear" THEN 1 ELSE 0
      [] line = L_bn -> IF name = "BatchNorm" THEN 1 ELSE 0
      [] line \in {L_relu5, L_relu6} -> IF name = "ReLU" THEN ConstructsOn(line) ELSE 0
      [] line = L_mha -> IF name = "MultiheadAttention" THEN 1 ELSE 0
      [] OTHER -> 0

RECURSIVE NamedIn(_, _)
NamedIn(lines, name) ==
    IF lines = <<>> THEN 0 ELSE NamedOn(Head(lines), name) + NamedIn(Tail(lines), name)

RECURSIVE CostOf(_, _)
\* the weighted sum of the occurrences of the constructs of set names
CostOf(lines, names) ==
    IF names = {} THEN 0
    ELSE LET name == CHOOSE n \in names : TRUE
         IN  NamedIn(lines, name) * Weights[name] + CostOf(lines, names \ {name})

\* C26: the heuristic cost is the sum over the constructs of count * weight,
\* and the counts hold exactly the constructs with at least one match, each
\* once with its number of matches; two convolutions and one batch
\* normalization give the counts 2 and 1, the cost 1.01 and the tier Low.
C26_CostIsWeightedSum ==
    \A pair \in scanned :
        LET lines   == SplitLines(pair[1])
            finding == pair[2]
            counts  == finding.layerCounts
        IN  /\ finding.estimatedFlops = CostOf(lines, DOMAIN Weights)
            /\ \A name \in DOMAIN Weights :
                  IF NamedIn(lines, name) > 0
                  THEN Cardinality({k \in 1..Len(counts) : counts[k].name = name}) = 1
                       /\ \E k \in 1..Len(counts) :
                             counts[k] = [name |-> name, count |-> NamedIn(lines, name)]
                  ELSE \A k \in 1..Len(counts) : counts[k].name # name
            /\ \A k \in 1..Len(counts) : counts[k].name \in DOMAIN Weights
            /\ pair[1] = L_convs \o <<"\n">> \o L_bn =>
                  /\ counts = << [name |-> "Conv2d", count |-> 2],
                                 [name |-> "BatchNorm", count |-> 1] >>
                  /\ finding.estimatedFlops = 1010
                  /\ finding.complexityLevel = "Low"

\* the scenario of the contract has been scanned
C26_Witness ==
    \E pair \in scanned :
        /\ pair[1] = L_convs \o <<"\n">> \o L_bn
        /\ pair[2].estimatedFlops = 1010
        /\ Len(pair[2].layerCounts) = 2

\* the label of the rule that fires on a source line, "" when none does
LabelOn(line) ==
    CASE line = L_convs -> "Spatial Downsampling"
      [] line = L_mha -> "Attention Mechanism"
      [] line = L_res -> "Residual Connection"
      [] OTHER -> ""

\* the 1-based numbers of the lines of the text on which a rule with the
\* label fires
FiredOn(code, label) ==
    LET lines == SplitLines(code)
    IN  {n \in 1..Len(lines) : LabelOn(lines[n]) = label}

\* C27: in every finding each label has exactly one highlight, and its line
\* numbers are 1-based, strictly ascending, without duplicates, and are
\* exactly the lines on which a rule with that label fired.
C27_HighlightsGroupedAndSorted ==
    \A pair \in scanned :
        LET entries == pair[2].structuralHighlights
        IN  /\ \A j \in 1..Len(entries) : \A k \in 1..Len(entries) :
                  entries[j].label = entries[k].label => j = k
            /\ \A k \in 1..Len(entries) :
                  LET numbers == entries[k].lineNumbers
                  IN  /\ entries[k].label # ""
                      /\ numbers # <<>>
                      /\ \A n \in 1..Len(numbers) : numbers[n] >= 1
                      /\ \A n \in 1..(Len(numbers) - 1) : numbers[n] < numbers[n + 1]
                      /\ {numbers[n] : n \in 1..Len(numbers)} = FiredOn(pair[1], entries[k].label)
            /\ \A label \in {"Spatial Downsampling", "Attention Mechanism", "Residual Connection"} :
                  FiredOn(pair[1], label) # {} =>
                      \E k \in 1..Len(entries) : entries[k].label = label

\* four strided convolutions on two lines give one highlight with two lines
C27_Witness ==
    \E pair \in scanned :
        /\ pair[1] = L_convs \o <<"\n">> \o L_convs
        /\ pair[2].structuralHighlights =
              << [label |-> "Spatial Downsampling", lineNumbers |-> <<1, 2>>] >>

\* C28: annotation rules fire only on matched constructs: every line number
\* of every highlight is a line that holds a counted construct, so a text
\* without matched constructs has no highlights.
C28_HighlightsOnlyOnConstructs ==
    \A pair \in scanned :
        LET entries == pair[2].structuralHighlights
            lines   == SplitLines(pair[1])
        IN  /\ \A k \in 1..Len(entries) : \A n \in 1..Len(entries[k].lineNumbers) :
                  ConstructsOn(lines[entries[k].lineNumbers[n]]) > 0
            /\ pair[2].layerCounts = <<>> => entries = <<>>

\* the line numbers of the highlight with the label, none when it is absent
LinesOf(finding, label) ==
    UNION {{finding.structuralHighlights[k].lineNumbers[n] :
               n \in 1..Len(finding.structuralHighlights[k].lineNumbers)} :
           k \in {j \in 1..Len(finding.structuralHighlights) :
                     finding.structuralHighlights[j].label = label}}

\* C29: every matched convolution with a group count other than 1 (here
\* groups=16) has the "Grouped Convolution" highlight on its line, and every
\* one with stride 2 the "Spatial Downsampling" highlight on its line.
C29_ConvArgumentsAnnotated ==
    \A pair \in scanned :
        LET lines == SplitLines(pair[1])
        IN  \A n \in 1..Len(lines) :
                /\ lines[n] = L_grouped => n \in LinesOf(pair[2], "Grouped Convolution")
                /\ lines[n] = L_convs => n \in LinesOf(pair[2], "Spatial Downsampling")

(***************************************************************************)
(* The routing gate on its own (geminiService.ts 102-121): the text is     *)
(* scanned and the preamble announces a complexity.                        *)
(***************************************************************************)
\* what the gate reads of a finding (lines 115 and 117)
GateView(finding) ==
    [requiresDynamicTracing |-> finding.requiresDynamicTracing,
     lowFlops |-> finding.estimatedFlops < 1000]

GateInit ==
    /\ pc = "text"
    /\ operation = "gate"
    /\ apiKey = TRUE
    /\ retries = DefaultRetries
    /\ delay = DefaultDelay
    /\ initial = [retries |-> DefaultRetries, delay |-> DefaultDelay]
    /\ txt \in SourceTextsOf(MaxLines)
    /\ fn = "none"
    /\ out = <<>>
    /\ embedding = NoEmbedding
    /\ StartState

\* lines 103-121: the scan and the two lines of the preamble, for a call
\* with or without an image
GateCall ==
    /\ operation = "gate" /\ fn = "none"
    /\ fn' = "gate"
    /\ out' = AnalyzeCodeStatic(txt)
    /\ scans' = scans + 1
    /\ \E hasImage \in BOOLEAN :
          /\ Calls(<< Chunk("preamble", "L1 Gate", <<>>, NoData),
                      Chunk("preamble", RouterTier(GateView(AnalyzeCodeStatic(txt)), hasImage),
                            <<>>, NoData) >>,
                   <<>>)
          /\ gate' = [gate EXCEPT
                        !.tier = RouterTier(GateView(AnalyzeCodeStatic(txt)), hasImage)]
    /\ UNCHANGED << pc, operation, apiKey, retries, delay, thrown, currentMessage,
                    finalJsonText, accumulatedText, toolCalls, nFrags, turns, rounds,
                    streamsOpen, inFlight, returned, raised, attempts, sleeps, cause,
                    firstCause, lost, streamsOpened, malformedLog, initial, txt,
                    embedding, scanner, scanned, chat, app, demo >>

\* what the steps after the preamble leave alone
GateFrame ==
    /\ Silent
    /\ UNCHANGED << pc, operation, apiKey, retries, delay, thrown, currentMessage,
                    finalJsonText, accumulatedText, toolCalls, nFrags, turns, rounds,
                    streamsOpen, inFlight, returned, raised, attempts, sleeps, cause,
                    firstCause, lost, streamsOpened, scans, malformedLog, initial, txt,
                    out, embedding, scanner, scanned, chat, app, demo >>

\* line 230: model: "gemini-3-pro-preview"
ChatModel(tier) == "gemini-3-pro-preview"

\* lines 227-239: retryOperation invokes the operation, which creates the chat
GateCreate ==
    /\ operation = "gate" /\ fn = "gate"
    /\ fn' = "create"
    /\ gate' = [gate EXCEPT !.model = ChatModel(gate.tier)]
    /\ GateFrame

\* lines 227-327: nothing between the scan and sendMessageStream reads isValid
\* but the system instruction (line 162)
RequestSent(finding) == TRUE

\* line 327: the first turn's request is sent to the chat's model
GateSend ==
    /\ operation = "gate" /\ fn = "create"
    /\ fn' = "send"
    /\ gate' = [gate EXCEPT !.requests = IF RequestSent(out) THEN @ + 1 ELSE @]
    /\ GateFrame

GateNext ==
    \/ GateCall
    \/ GateCreate
    \/ GateSend

GateSpec == GateInit /\ [][GateNext]_vars

\* C30: the complexity the preamble announces is the complexityLevel of the
\* scanner's finding for the same text, whatever else the call carries.
C30_AnnouncedTierIsScannerTier ==
    fn = "gate" => emitted[2].tag = out.complexityLevel

\* C31: only a request routed as High is sent to Gemini 3 Pro, and a request
\* routed as Low is addressed to the lighter Flash model.
C31_ModelFollowsTier ==
    fn \in {"create", "send"} =>
        /\ gate.model = "gemini-3-pro-preview" => gate.tier = "High"
        /\ gate.tier = "Low" => gate.model = "gemini-2.5-flash-lite"

\* C32: when the scanner finds a syntax error in the text (isValid is false),
\* no request for that text is ever sent to the backend.
C32_SyntaxErrorNotSent ==
    (fn \in {"gate", "create", "send"}
       /\ ~out.isValid
       /\ \E k \in 1..Len(out.errors) : out.errors[k].kind = "Syntax Error")
    => gate.requests = 0

(***************************************************************************)
(* The V38 chat (components/V38ChatModal.tsx): the usage record in the     *)
(* browser's storage, shared by every instance of the modal, and the       *)
(* dailyUsage state of each instance.  Dates are numbered from 1.          *)
(***************************************************************************)
\* instances of the modal (tabs) that share the storage
MaxTabs == 2

\* calendar dates the clock goes through
MaxDays == 2

\* line 21
DAILY_MESSAGE_LIMIT == 7

Tabs == 1..MaxTabs

\* localStorage.getItem(STORAGE_KEY) is null
NoItem == [present |-> FALSE, date |-> 0, count |-> 0]

\* lines 30-45: getUsageData() against the storage and the clock
GetUsageData(storage, today) ==
    IF storage.present /\ storage.date = today
    THEN [date |-> storage.date, count |-> storage.count]
    ELSE [date |-> today, count |-> 0]

\* lines 47-52: the record incrementUsage() stores; its count is returned
IncrementUsage(storage, today) ==
    [present |-> TRUE, date |-> today, count |-> GetUsageData(storage, today).count + 1]

\* lines 130-131: isLimitReached of the render whose handler runs
IsLimitReached(dailyUsage) == DAILY_MESSAGE_LIMIT - dailyUsage.count <= 0

\* an instance before it is mounted
NoTab == [mounted |-> FALSE, dailyUsage |-> [date |-> 0, count |-> 0],
          isLoading |-> FALSE, notices |-> 0]

\* the browser before any instance is mounted
ChatStart == [today |-> 1, storage |-> NoItem, tabs |-> [t \in Tabs |-> NoTab],
              accepted |-> [d \in 1..MaxDays |-> 0]]

ChatInit ==
    /\ pc = "text"
    /\ operation = "chat"
    /\ apiKey \in BOOLEAN
    /\ retries = DefaultRetries
    /\ delay = DefaultDelay
    /\ initial = [retries |-> DefaultRetries, delay |-> DefaultDelay]
    /\ txt = <<>> /\ fn = "none" /\ out = <<>>
    /\ embedding = NoEmbedding
    /\ CallStart
    /\ gate = NoGate
    /\ chat = ChatStart
    /\ app = NoApp
    /\ demo = NoDemo

\* what no step of the chat touches
ChatFrame ==
    UNCHANGED << pc, operation, apiKey, retries, delay, thrown, currentMessage,
                 finalJsonText, accumulatedText, toolCalls, nFrags, turns, rounds,
                 streamsOpen, inFlight, returned, raised, attempts, sleeps, cause,
                 firstCause, lost, emitted, phases, nChunkCalls, nPhaseCalls,
                 streamsOpened, scans, malformedLog, initial, txt, fn, out, embedding,
                 scanner, scanned, gate, app, demo >>

\* lines 124-128: an instance is mounted, or the page is loaded again;
\* useState(getUsageData()) reads the storage once
ChatMount(t) ==
    /\ operation = "chat"
    /\ chat' = [chat EXCEPT
                  !.tabs[t] = [NoTab EXCEPT
                                 !.mounted = TRUE,
                                 !.dailyUsage = GetUsageData(chat.storage, chat.today)]]
    /\ ChatFrame

\* lines 140-167: handleSend with a non-blank input, from the Enter key
\* (line 357) or from the button, which is disabled while isLoading or
\* isLimitReached (line 362).  At the limit the notice is appended; below
\* it the usage is incremented in the storage and copied into the state,
\* the user's message is accepted and the reply is awaited.
HandleSend(t) ==
    /\ operation = "chat"
    /\ chat.tabs[t].mounted
    /\ \E key \in {"Enter", "button"} :
          key = "button" =>
              ~chat.tabs[t].isLoading /\ ~IsLimitReached(chat.tabs[t].dailyUsage)
    /\ IF IsLimitReached(chat.tabs[t].dailyUsage)
       THEN chat' = [chat EXCEPT !.tabs[t].notices = Count(@)]
       ELSE chat' = [chat EXCEPT
                       !.storage = IncrementUsage(chat.storage, chat.today),
                       !.tabs[t].dailyUsage =
                           [date |-> chat.today,
                            count |-> IncrementUsage(chat.storage, chat.today).count],
                       !.tabs[t].isLoading = TRUE,
                       !.accepted[chat.today] = @ + 1]
    /\ ChatFrame

\* lines 176-230: the reply has been streamed, or has failed; setIsLoading(false)
ReplyEnds(t) ==
    /\ operation = "chat"
    /\ chat.tabs[t].isLoading
    /\ chat' = [chat EXCEPT !.tabs[t].isLoading = FALSE]
    /\ ChatFrame

\* line 28: the date getTodayString() returns changes
DateChanges ==
    /\ operation = "chat"
    /\ chat.today < MaxDays
    /\ chat' = [chat EXCEPT !.today = @ + 1]
    /\ ChatFrame

ChatNext ==
    \/ \E t \in Tabs : ChatMount(t)
    \/ \E t \in Tabs : HandleSend(t)
    \/ \E t \in Tabs : ReplyEnds(t)
    \/ DateChanges

ChatSpec == ChatInit /\ [][ChatNext]_vars

\* C33: on any one date the user messages the chat accepts, and the usage
\* count stored for that date, never exceed the daily limit, also when
\* several instances share the storage.
C33_DailyLimitHolds ==
    operation = "chat" =>
        /\ \A d \in 1..MaxDays : chat.accepted[d] <= DAILY_MESSAGE_LIMIT
        /\ chat.storage.present => chat.storage.count <= DAILY_MESSAGE_LIMIT

\* C34: once the date differs from the stored date the effective count is 0:
\* no mounted instance holds the user at the limit, also one that stayed
\* mounted across the change of date.
C34_ResetOnDateChange ==
    operation = "chat" =>
        \A t \in Tabs :
            (chat.tabs[t].mounted /\ chat.storage.present
                /\ chat.storage.date # chat.today)
            => ~IsLimitReached(chat.tabs[t].dailyUsage)

(***************************************************************************)
(* One tool round on its own (geminiService.ts 357-392 and 327): the first *)
(* turn's stream has ended with tool requests of several ids and names;    *)
(* the tools are executed and the next turn's request is sent.             *)
(***************************************************************************)
\* requests a turn may hold: three ids, the registered name and another
RoundRequests ==
    { ToolCall(id, name, joules, region) :
        id \in {"c1", "c2", "c3"}, name \in {CarbonToolName, "lookup_specs"},
        joules \in {0, 7200}, region \in {"us-central1", ""} }

\* the session after its first turn's stream ended (lines 331-354) with
\* tool requests and no text
RoundInit ==
    /\ pc = "tools"
    /\ operation = "session"
    /\ apiKey = TRUE
    /\ retries = DefaultRetries
    /\ delay = DefaultDelay
    /\ initial = [retries |-> DefaultRetries, delay |-> DefaultDelay]
    /\ txt = <<>> /\ fn = "none" /\ out = <<>>
    /\ embedding = NoEmbedding
    /\ thrown = NoError
    /\ currentMessage = InitialMessage
    /\ finalJsonText = <<>>
    /\ accumulatedText = <<>>
    /\ \E n \in 1..MaxCalls : toolCalls \in [1..n -> RoundRequests]
    /\ nFrags = 1
    /\ turns = 1
    /\ rounds = 0
    /\ streamsOpen = 0
    /\ inFlight = 1
    /\ returned = Undefined
    /\ raised = NoError
    /\ attempts = 1
    /\ sleeps = <<>>
    /\ cause = NoError
    /\ firstCause = NoError
    /\ lost = <<>>
    /\ emitted = <<>>
    /\ phases = <<>>
    /\ nChunkCalls = 2
    /\ nPhaseCalls = 0
    /\ streamsOpened = 1
    /\ scans = 1
    /\ malformedLog = <<>>
    /\ scanner = NoScan
    /\ scanned = {}
    /\ gate = NoGate
    /\ chat = NoChat
    /\ app = NoApp
    /\ demo = NoDemo

RoundNext ==
    \/ ExecTools
    \/ SendOk

RoundSpec == RoundInit /\ [][RoundNext]_vars

RECURSIVE RegisteredCalls(_)
\* the requests of a turn that name the registered tool, in request order
RegisteredCalls(calls) ==
    IF calls = <<>> THEN <<>>
    ELSE (IF Head(calls).name = CarbonToolName THEN <<Head(calls)>> ELSE <<>>)
             \o RegisteredCalls(Tail(calls))

\* C35: the input of a turn after the first is one tool result per registered
\* request of the preceding turn, in request order, each with the id and the
\* name of the request it answers: none for another request, none twice.
C35_OneResultPerRegisteredRequest ==
    (pc = "send" /\ rounds > 0) =>
        LET requests == RegisteredCalls(toolCalls)
            results  == currentMessage.responses
        IN  /\ currentMessage.kind = "responses"
            /\ Len(results) = Len(requests)
            /\ \A k \in 1..Len(results) :
                  /\ results[k].id = requests[k].id
                  /\ results[k].name = requests[k].name
                  /\ results[k].result = CarbonResult(requests[k])

\* two registered requests of different ids, c2 before c1, were answered
C35_Witness ==
    /\ pc = "send" /\ rounds = 1
    /\ Len(toolCalls) = 2
    /\ toolCalls[1].id = "c2" /\ toolCalls[2].id = "c1"
    /\ \A i \in 1..2 : toolCalls[i].name = CarbonToolName
    /\ Len(currentMessage.responses) = 2
    /\ currentMessage.responses[1].id = "c2"

\* C36: no turn is sent with an empty input: the request sent after a tool
\* round carries at least one tool result, also when every request of the
\* preceding turn named an unregistered tool.
C36_NoEmptyInput ==
    (pc = "streaming" /\ currentMessage.kind = "responses") =>
        Len(currentMessage.responses) > 0

\* the text the step's fragment brought (line 333)
FragmentText == SubSeq(accumulatedText', Len(accumulatedText) + 1, Len(accumulatedText'))

\* C37: tool requests that arrive among the text of a turn are only buffered
\* while the stream is read: each fragment's text is forwarded to onChunk in
\* the step that receives it, no tool is executed in such a step, and the
\* tools of a turn are executed only once its stream has ended.
C37_ToolsAfterStream ==
    [][ /\ (pc = "streaming" /\ pc' = "streaming") =>
              /\ UNCHANGED <<currentMessage, rounds>>
              /\ \A i \in 1..Len(emitted') : emitted'[i].src = "stream"
              /\ CleanChunk(FragmentText) # <<>> =>
                    emitted' = << Chunk("stream", "", CleanChunk(FragmentText), NoData) >>
        /\ (\E i \in 1..Len(emitted') : emitted'[i].src = "tool") =>
              /\ pc = "tools"
              /\ streamsOpen = 0
              /\ nFrags > 0 ]_vars

\* a turn brought text before and with its tool request, and the tool has
\* been executed
C37_Witness ==
    /\ pc = "send" /\ rounds = 1
    /\ toolCalls = << ToolCall("c1", CarbonToolName, 3600000, "us-central1") >>
    /\ accumulatedText = F_hi \o F_hi
    /\ Len(emitted) = 1 /\ emitted[1].src = "tool"

(***************************************************************************)
(* The App component (App.tsx): the API key modal, the live audit          *)
(* (handleAnalyze) and the demo playback (handleViewSample).  Runs are     *)
(* numbered in the order they start.                                       *)
(***************************************************************************)
\* runs (live audits and playbacks) started in all
MaxRuns == 2

Runs == 1..MaxRuns

NoRun == [kind |-> "none", status |-> "idle"]

\* no result is shown; run 0 stands for the instant sample, which no run makes
NoResult == [shown |-> FALSE, run |-> 0]

\* lines 30-60: the state of App at mount, with a key (lines 66-73) or
\* without, opened on a shared report (line 80) or not
AppStart(hasKey, shared) ==
    [apiKey |-> hasKey, showKeyModal |-> FALSE, isAnalyzing |-> FALSE,
     activePhase |-> "", streamFrom |-> {}, result |-> NoResult,
     analysisError |-> FALSE, sampleTimer |-> shared,
     runs |-> [r \in Runs |-> NoRun]]

AppInit ==
    /\ pc = "text"
    /\ operation = "app"
    /\ apiKey = TRUE
    /\ retries = DefaultRetries
    /\ delay = DefaultDelay
    /\ initial = [retries |-> DefaultRetries, delay |-> DefaultDelay]
    /\ txt = <<>> /\ fn = "none" /\ out = <<>>
    /\ embedding = NoEmbedding
    /\ CallStart
    /\ gate = NoGate
    /\ chat = NoChat
    /\ \E hasKey \in BOOLEAN, shared \in BOOLEAN : app = AppStart(hasKey, shared)
    /\ demo = NoDemo

\* what no step of App touches
AppFrame ==
    UNCHANGED << pc, operation, apiKey, retries, delay, thrown, currentMessage,
                 finalJsonText, accumulatedText, toolCalls, nFrags, turns, rounds,
                 streamsOpen, inFlight, returned, raised, attempts, sleeps, cause,
                 firstCause, lost, emitted, phases, nChunkCalls, nPhaseCalls,
                 streamsOpened, scans, malformedLog, initial, txt, fn, out, embedding,
                 scanner, scanned, gate, chat, demo >>

\* lines 84, 438 and 641: setShowKeyModal(true), from the timer of a mount
\* without a key or from the settings button of the header, which is
\* enabled whether or not a run is in progress
OpenKeyModal ==
    /\ operation = "app"
    /\ ~app.showKeyModal
    /\ app' = [app EXCEPT !.showKeyModal = TRUE]
    /\ AppFrame

\* ApiKeyModal.tsx 18-25 and 120-122: a key is saved, or the modal is
\* closed by its Cancel button, shown when there is a key
CloseKeyModal ==
    /\ operation = "app"
    /\ app.showKeyModal
    /\ \E saved \in BOOLEAN :
          /\ ~saved => app.apiKey
          /\ app' = [app EXCEPT !.showKeyModal = FALSE,
                                !.apiKey = IF saved THEN TRUE ELSE @]
    /\ AppFrame

\* the number the next run takes
NextRun(a) == MinOf({r \in Runs : a.runs[r].kind = "none"})

\* lines 112-118 and 171-180: both handlers begin with the same resets
RunStarted(a, kind) ==
    [a EXCEPT !.isAnalyzing = TRUE, !.result = NoResult, !.analysisError = FALSE,
              !.streamFrom = {}, !.activePhase = "",
              !.runs[NextRun(a)] = [kind |-> kind, status |-> "running"]]

\* lines 165-180: handleAnalyze, from the button of line 572, disabled
\* while isAnalyzing and covered while the key modal is open
HandleAnalyze ==
    /\ operation = "app"
    /\ ~app.showKeyModal /\ ~app.isAnalyzing
    /\ IF ~app.apiKey
       THEN app' = [app EXCEPT !.showKeyModal = TRUE]
       ELSE /\ \E r \in Runs : app.runs[r].kind = "none"
            /\ app' = RunStarted(app, "live")
    /\ AppFrame

\* lines 111-143: handleViewSample(false), which tests nothing before it
\* starts, from the key modal (ApiKeyModal.tsx 27-30, which then closes the
\* modal) or from the buttons of the page (lines 596-598), shown when no run
\* is in progress and no result is shown
HandleViewSample ==
    /\ operation = "app"
    /\ \E r \in Runs : app.runs[r].kind = "none"
    /\ \/ /\ app.showKeyModal
          /\ app' = [RunStarted(app, "demo") EXCEPT !.showKeyModal = FALSE]
       \/ /\ ~app.showKeyModal /\ ~app.isAnalyzing /\ ~app.result.shown
          /\ app' = RunStarted(app, "demo")
    /\ AppFrame

\* lines 82 and 112-124: handleViewSample(true), from the timer a mount on
\* a shared report sets for 100 ms later, before any run has started
InstantSample ==
    /\ operation = "app"
    /\ app.sampleTimer
    /\ \A r \in Runs : app.runs[r].kind = "none"
    /\ app' = [app EXCEPT !.sampleTimer = FALSE, !.isAnalyzing = FALSE,
                          !.result = [shown |-> TRUE, run |-> 0],
                          !.analysisError = FALSE, !.streamFrom = {},
                          !.activePhase = ""]
    /\ AppFrame

\* lines 130-131 and 183-192: a run in progress hands narration and a phase
\* to the callbacks App gave it
RunEvent(r) ==
    /\ operation = "app"
    /\ app.runs[r].status = "running"
    /\ \E phase \in {"SEARCH", "COMPUTE"} :
          app' = [app EXCEPT !.streamFrom = @ \cup {r}, !.activePhase = phase]
    /\ AppFrame

\* lines 132-142: the playback ends (onPhase(""), onComplete, then
\* setIsAnalyzing(false)); lines 194-223: the live audit ends with a report
\* or an error, whose message may name the API key, then finally
RunEnds(r) ==
    /\ operation = "app"
    /\ app.runs[r].status = "running"
    /\ \E outcome \in {"report", "error", "key error"} :
          /\ app.runs[r].kind = "demo" => outcome = "report"
          /\ app' = [app EXCEPT
                       !.runs[r].status = "done",
                       !.result = IF outcome = "report"
                                  THEN [shown |-> TRUE, run |-> r] ELSE @,
                       !.analysisError = IF outcome = "report" THEN @ ELSE TRUE,
                       !.showKeyModal = IF outcome = "key error" THEN TRUE ELSE @,
                       !.isAnalyzing = FALSE,
                       !.activePhase = ""]
    /\ AppFrame

AppNext ==
    \/ OpenKeyModal
    \/ CloseKeyModal
    \/ HandleAnalyze
    \/ HandleViewSample
    \/ InstantSample
    \/ \E r \in Runs : RunEvent(r)
    \/ \E r \in Runs : RunEnds(r)

AppSpec == AppInit /\ [][AppNext]_vars

\* the runs in progress
Running == {r \in Runs : app.runs[r].status = "running"}

\* C38: at most one run, live or playback, is in progress at any time; while
\* one is, isAnalyzing is true; the narration and the result shown come from
\* a single run; and when no run is in progress after one has ended,
\* isAnalyzing is false and the active phase is cleared.
C38_OneRunAtATime ==
    operation = "app" =>
        /\ Cardinality(Running) <= 1
        /\ Running # {} => app.isAnalyzing
        /\ Cardinality(app.streamFrom) <= 1
        /\ (app.result.shown /\ app.result.run # 0) => app.streamFrom \subseteq {app.result.run}
        /\ (Running = {} /\ \E r \in Runs : app.runs[r].status = "done") =>
              ~app.isAnalyzing /\ app.activePhase = ""

(***************************************************************************)
(* The ScenarioEngine (services/demoOrchestrator.ts): one call of          *)
(* runCiCdPipeline or of runAuditScenario, each await of delay() a step,   *)
(* the callbacks it makes recorded in order.                               *)
(***************************************************************************)
\* largest energy value and budget, in units of the comparison of line 129
MaxEnergy == 4

\* a call of a callback: onLog, onStatus, onPhase, onSandboxActive, onComplete
Event(kind, tag) == [kind |-> kind, tag |-> tag]

\* lines 111-119: the texts of steps, by their bracketed heads
PipelineSteps ==
    << "Initializing", "Auth", "Policy file", "Policy STRICT MODE", "Audit",
       "Measure", "Safety" >>

\* a plausible slip: a value equal to the budget fails
ExceedsBudgetOrMeets(energyValue, energyBudget) == energyValue >= energyBudget

\* line 129
ExceedsBudget(energyValue, energyBudget) == energyValue > energyBudget

\* lines 129-137: the two lines of the verdict and the terminal status
PipelineVerdict(energyValue, energyBudget) ==
    IF ExceedsBudget(energyValue, energyBudget)
    THEN << Event("log", "FAILED"), Event("log", "Action: Blocking Merge"),
            Event("status", "failed") >>
    ELSE << Event("log", "PASSED"), Event("log", "Action: Auto-approving PR"),
            Event("status", "success") >>

\* a plausible slip: the result is handed over before the playback is wound up
AuditScriptCompletesFirst ==
    << << Event("log", "Initializing"), Event("phase", "SEARCH") >>,
       << Event("log", "Mocking Google Search") >>,
       << Event("log", "Found") >>,
       << Event("phase", "COMPUTE"), Event("sandbox", "active"),
          Event("log", "Running Python") >>,
       << Event("log", "Executing kernel_math.py") >>,
       << Event("phase", "CORRECTION"), Event("log", "Traceback") >>,
       << Event("log", "Executing kernel_math_v2.py") >>,
       << Event("log", "Success"), Event("phase", "STRATEGY"),
          Event("log", "Anomaly Resolved") >>,
       << Event("complete", "MOCK_ANALYSIS_RESULT"), Event("phase", ""),
          Event("sandbox", "inactive") >> >>

\* lines 50-96: the callbacks of runAuditScenario, those between two awaits
\* of delay() together
AuditScript ==
    << << Event("log", "Initializing"), Event("phase", "SEARCH") >>,
       << Event("log", "Mocking Google Search") >>,
       << Event("log", "Found") >>,
       << Event("phase", "COMPUTE"), Event("sandbox", "active"),
          Event("log", "Running Python") >>,
       << Event("log", "Executing kernel_math.py") >>,
       << Event("phase", "CORRECTION"), Event("log", "Traceback") >>,
       << Event("log", "Executing kernel_math_v2.py") >>,
       << Event("log", "Success"), Event("phase", "STRATEGY"),
          Event("log", "Anomaly Resolved") >>,
       << Event("phase", ""), Event("sandbox", "inactive"),
          Event("complete", "MOCK_ANALYSIS_RESULT") >> >>

DemoInit ==
    /\ pc = "text"
    /\ operation = "demo"
    /\ apiKey = FALSE
    /\ retries = DefaultRetries
    /\ delay = DefaultDelay
    /\ initial = [retries |-> DefaultRetries, delay |-> DefaultDelay]
    /\ txt = <<>> /\ fn = "none" /\ out = <<>>
    /\ embedding = NoEmbedding
    /\ StartState

\* what no step of the engine touches
DemoFrame ==
    UNCHANGED << pc, operation, apiKey, retries, delay, thrown, currentMessage,
                 finalJsonText, accumulatedText, toolCalls, nFrags, turns, rounds,
                 streamsOpen, inFlight, returned, raised, attempts, sleeps, cause,
                 firstCause, lost, emitted, phases, nChunkCalls, nPhaseCalls,
                 streamsOpened, scans, malformedLog, initial, txt, fn, out, embedding,
                 scanner, scanned, gate, chat, app >>

\* lines 103-109: runCiCdPipeline is called and reports 'running'
RunCiCdPipeline ==
    /\ operation = "demo"
    /\ demo.scenario = "none"
    /\ \E energyValue \in 0..MaxEnergy, energyBudget \in 1..MaxEnergy :
          demo' = [scenario |-> "cicd", energyValue |-> energyValue,
                   energyBudget |-> energyBudget, pos |-> 1,
                   events |-> << Event("status", "running") >>]
    /\ DemoFrame

\* lines 122-125: a step's delay has passed and its text is logged
PipelineStep ==
    /\ operation = "demo"
    /\ demo.scenario = "cicd"
    /\ demo.pos \in 1..Len(PipelineSteps)
    /\ demo' = [demo EXCEPT !.pos = @ + 1,
                            !.events = Append(@, Event("log", PipelineSteps[demo.pos]))]
    /\ DemoFrame

\* lines 127-137: the last delay has passed; the verdict and the return
PipelineEnds ==
    /\ operation = "demo"
    /\ demo.scenario = "cicd"
    /\ demo.pos = Len(PipelineSteps) + 1
    /\ demo' = [demo EXCEPT !.pos = 0, !.scenario = "cicd done",
                            !.events = @ \o PipelineVerdict(demo.energyValue,
                                                            demo.energyBudget)]
    /\ DemoFrame

\* lines 44-53: runAuditScenario is called and runs to its first await
RunAuditScenario ==
    /\ operation = "demo"
    /\ demo.scenario = "none"
    /\ demo' = [demo EXCEPT !.scenario = "audit", !.pos = 2, !.events = AuditScript[1]]
    /\ DemoFrame

\* lines 53-96: a delay has passed and the playback runs to its next await,
\* or to its end
AuditResumes ==
    /\ operation = "demo"
    /\ demo.scenario = "audit"
    /\ demo' = [demo EXCEPT
                  !.events = @ \o AuditScript[demo.pos],
                  !.pos = IF demo.pos = Len(AuditScript) THEN 0 ELSE @ + 1,
                  !.scenario = IF demo.pos = Len(AuditScript) THEN "audit done" ELSE @]
    /\ DemoFrame

DemoNext ==
    \/ RunCiCdPipeline
    \/ PipelineStep
    \/ PipelineEnds
    \/ RunAuditScenario
    \/ AuditResumes

DemoSpec == DemoInit /\ [][DemoNext]_vars

RECURSIVE OfKind(_, _)
\* the tags of the events of one kind, in order
OfKind(events, kind) ==
    IF events = <<>> THEN <<>>
    ELSE (IF Head(events).kind = kind THEN <<Head(events).tag>> ELSE <<>>)
             \o OfKind(Tail(events), kind)

IsPrefix(a, b) == Len(a) <= Len(b) /\ a = SubSeq(b, 1, Len(a))

\* C39: runCiCdPipeline reports 'running' first, then one terminal status
\* and nothing after it, once the seven steps were logged in order: 'failed'
\* exactly when energyValue > energyBudget, 'success' otherwise.
C39_OneTerminalStatus ==
    demo.scenario \in {"cicd", "cicd done"} =>
        LET events == demo.events
            logs   == OfKind(events, "log")
        IN  /\ events[1] = Event("status", "running")
            /\ \A i \in 2..Len(events) :
                  events[i].kind = "status" =>
                      /\ i = Len(events)
                      /\ demo.scenario = "cicd done"
                      /\ events[i].tag = IF demo.energyValue > demo.energyBudget
                                         THEN "failed" ELSE "success"
                      /\ IsPrefix(PipelineSteps, logs)
            /\ IsPrefix(logs, PipelineSteps) \/ IsPrefix(PipelineSteps, logs)
            /\ demo.scenario = "cicd done" => events[Len(events)].kind = "status"
                                              /\ Len(events) > 1

\* a value equal to the budget has passed
C39_Witness ==
    /\ demo.scenario = "cicd done"
    /\ demo.energyValue = demo.energyBudget
    /\ demo.events[Len(demo.events)] = Event("status", "success")
    /\ Len(OfKind(demo.events, "log")) = Len(PipelineSteps) + 2

\* C40: runAuditScenario reports the phases SEARCH, COMPUTE, CORRECTION,
\* STRATEGY and then the empty phase, in this order; the sandbox becomes
\* active at COMPUTE and inactive only at the end; onComplete is called once,
\* after every log and phase event.
C40_FixedEventSequence ==
    demo.scenario \in {"audit", "audit done"} =>
        LET events == demo.events
            ended  == demo.scenario = "audit done"
            all    == << "SEARCH", "COMPUTE", "CORRECTION", "STRATEGY", "" >>
        IN  /\ IsPrefix(OfKind(events, "phase"), all)
            /\ ended => OfKind(events, "phase") = all
            /\ IsPrefix(OfKind(events, "sandbox"), << "active", "inactive" >>)
            /\ \A i \in 1..Len(events) :
                  /\ (events[i].kind = "sandbox" /\ events[i].tag = "active") =>
                        i > 1 /\ events[i - 1] = Event("phase", "COMPUTE")
                  /\ (events[i].kind = "phase" /\ events[i].tag = "COMPUTE") =>
                        i < Len(events) /\ events[i + 1] = Event("sandbox", "active")
                  /\ (events[i].kind = "sandbox" /\ events[i].tag = "inactive") =>
                        i > 1 /\ events[i - 1] = Event("phase", "")
                  /\ events[i].kind = "complete" => i = Len(events) /\ ended
            /\ ended => /\ Len(OfKind(events, "complete")) = 1
                        /\ OfKind(events, "sandbox") = << "active", "inactive" >>

\* the playback has ended
C40_Witness ==
    /\ demo.scenario = "audit done"
    /\ Len(OfKind(demo.events, "log")) = 9
    /\ demo.events[Len(demo.events)].kind = "complete"

====
